---- MODULE Spec2Model ----
(***************************************************************************)
(* GeoTruth API: the export endpoints (export.py), the time-code parser,   *)
(* the narration endpoint (narrate.py) and the geo endpoints (enrich.py,   *)
(* map_match.py, health.py) over the Redis cache, as state machines.       *)
(*                                                                         *)
(* A Python str is a sequence of one-character strings, so that split,     *)
(* replace, slicing and formatting are computed character by character.    *)
(* A Python float that holds seconds is kept exactly, in milliseconds      *)
(* (words / 2.5 s = words * 400 ms), and a float quotient as a fraction.   *)
(***************************************************************************)
EXTENDS Integers, Sequences, FiniteSets, TLC

VARIABLES
    request,        \* the HTTP request being handled, or NoRequest
    response,       \* the handler's response to it, or NoResponse
    called,         \* the formatters the handler ran for this request
    tc_fields,      \* time-code parser: the fields the argument was built from
    tc_arg,         \* time-code parser: the argument (a str)
    tc_result,      \* time-code parser: NotCalled, a return value or an exception
    tc_formatted,   \* time-code parser: the result formatted back as HH:MM:SS
    tc_reparsed,    \* time-code parser: the outcome of parsing tc_formatted
    GEMINI_API_KEY, \* settings.GEMINI_API_KEY, "" when no credential is configured
    gemini_model,   \* narrate.py's _gemini_model: NoModel or the client built
    models_built,   \* how many times genai.GenerativeModel(...) was constructed
    generate_content_calls, \* how many times model.generate_content was called
    last_prompt,    \* the prompt of the generate_content call of this request
    last_reply,     \* what that call gave: a text or an exception
    narrate_request,  \* the /narrate or /narrate/status request being handled
    narrate_response, \* the response of generate_narration to it
    status_response,  \* the response of narration_status to it
    redis_store,    \* the entries the Redis server holds
    redis_pool,     \* cache.py's _redis_pool: NoPool or the pool created
    geo_request,    \* the /enrich, /enrich_batch or /map_match request being handled
    geo_response,   \* the response to it
    cache_log,      \* the Redis commands done for this request, in order
    valhalla_call,  \* what the POST to Valhalla of this request gave, if one was made
    from_cache_count, \* how many results of this request came out of the cache
    degraded_keys,  \* the keys without entry whose map match was degraded, not set since
    populated_by,   \* for each map-match key with an entry, the trace whose request wrote it
    health_request, \* the GET /health being handled and what the checks will find
    health_response, \* the response to it
    cache_call,     \* a call of a Cache method and its result
    callers,        \* concurrent callers of get_gemini_model(): where each one is
    db_sessions,    \* the sessions of get_db_session(): where each one is, what was done on it
    redis_clients,  \* concurrent callers of Cache methods: where each one is, its client
    redis_close     \* close_redis(): where it is, the pools made, closing and closed

export_vars == <<request, response, called>>
time_vars == <<tc_fields, tc_arg, tc_result, tc_formatted, tc_reparsed>>
narrate_vars == <<GEMINI_API_KEY, gemini_model, models_built, generate_content_calls,
                  last_prompt, last_reply, narrate_request, narrate_response, status_response>>
geo_vars == <<redis_store, redis_pool, geo_request, geo_response, cache_log, valhalla_call,
              from_cache_count, degraded_keys, populated_by,
              health_request, health_response, cache_call>>
life_vars == <<db_sessions, redis_clients, redis_close>>
vars == <<export_vars, time_vars, narrate_vars, geo_vars, callers, life_vars>>

(***************************************************************************)
(* Python built-ins on str and int                                         *)
(***************************************************************************)

\* Optional[str]: None, or a str
None == [some |-> FALSE, v |-> <<>>]
Some(s) == [some |-> TRUE, v |-> s]
\* truthiness of an Optional[str]: None and "" are falsy
Truthy(o) == o.some /\ o.v # <<>>

\* the outcome of a call: a returned value or a raised exception
Ret(v) == [ok |-> TRUE, val |-> v, exc |-> ""]
Raise(e) == [ok |-> FALSE, val |-> 0, exc |-> e]

Whitespace == {" ", "\n", "\t", "\r"}
DigitChars == <<"0", "1", "2", "3", "4", "5", "6", "7", "8", "9">>
IsDigit(c) == \E k \in 1..10 : DigitChars[k] = c
DigitVal(c) == (CHOOSE k \in 1..10 : DigitChars[k] = c) - 1

Min(S) == CHOOSE x \in S : \A y \in S : x <= y

\* sep.join(lines)
RECURSIVE Join(_, _)
Join(lines, sep) ==
    IF lines = <<>> THEN <<>>
    ELSE IF Len(lines) = 1 THEN lines[1]
    ELSE lines[1] \o sep \o Join(Tail(lines), sep)

\* s.startswith(p) at offset i (1-based)
IsPrefixAt(s, p, i) ==
    /\ i + Len(p) - 1 <= Len(s)
    /\ SubSeq(s, i, i + Len(p) - 1) = p

\* s.split(sep) for a one-character sep, from offset i: never empty, keeps
\* empty fields
RECURSIVE SplitFrom(_, _, _)
SplitFrom(s, sep, i) ==
    LET seps == {j \in i..Len(s) : s[j] = sep}
    IN  IF seps = {} THEN <<SubSeq(s, i, Len(s))>>
        ELSE <<SubSeq(s, i, Min(seps) - 1)>> \o SplitFrom(s, sep, Min(seps) + 1)

Split(s, sep) == SplitFrom(s, sep, 1)

\* s.split(), from offset i: on runs of whitespace, no empty words
RECURSIVE SplitWsFrom(_, _)
SplitWsFrom(s, i) ==
    LET starts == {j \in i..Len(s) : s[j] \notin Whitespace}
    IN  IF starts = {} THEN <<>>
        ELSE LET first == Min(starts)
                 stops == {j \in first..Len(s) : s[j] \in Whitespace}
                 last == IF stops = {} THEN Len(s) ELSE Min(stops) - 1
             IN  <<SubSeq(s, first, last)>> \o SplitWsFrom(s, last + 1)

SplitWs(s) == SplitWsFrom(s, 1)

\* s.replace(old, new), old not empty, from offset i: every occurrence that
\* does not overlap an earlier one, left to right
RECURSIVE ReplaceFrom(_, _, _, _)
ReplaceFrom(s, old, new, i) ==
    LET found == {j \in i..Len(s) : IsPrefixAt(s, old, j)}
    IN  IF found = {} THEN SubSeq(s, i, Len(s))
        ELSE SubSeq(s, i, Min(found) - 1) \o new
                 \o ReplaceFrom(s, old, new, Min(found) + Len(old))

Replace(s, old, new) == ReplaceFrom(s, old, new, 1)

\* s.count(c) for a one-character c
CountChar(s, c) == Cardinality({i \in 1..Len(s) : s[i] = c})

\* s.strip()
RECURSIVE Strip(_)
Strip(s) ==
    IF s = <<>> THEN s
    ELSE IF s[1] \in Whitespace THEN Strip(Tail(s))
    ELSE IF s[Len(s)] \in Whitespace THEN Strip(SubSeq(s, 1, Len(s) - 1))
    ELSE s

\* the value of a run of digits and single underscores
RECURSIVE DigitsVal(_)
DigitsVal(s) ==
    IF s = <<>> THEN 0
    ELSE IF s[Len(s)] = "_" THEN DigitsVal(SubSeq(s, 1, Len(s) - 1))
    ELSE DigitsVal(SubSeq(s, 1, Len(s) - 1)) * 10 + DigitVal(s[Len(s)])

\* a run of digits that single underscores may separate
IsIntBody(body) ==
    /\ body # <<>>
    /\ \A i \in 1..Len(body) : IsDigit(body[i]) \/ body[i] = "_"
    /\ IsDigit(body[1]) /\ IsDigit(body[Len(body)])
    /\ \A i \in 1..(Len(body) - 1) : ~(body[i] = "_" /\ body[i + 1] = "_")

IntOfSigned(sign, body) ==
    IF ~IsIntBody(body) THEN Raise("ValueError")
    ELSE IF sign = "-" THEN Ret(0 - DigitsVal(body))
    ELSE Ret(DigitsVal(body))

IntOfStripped(t) ==
    IF t # <<>> /\ t[1] \in {"+", "-"} THEN IntOfSigned(t[1], Tail(t))
    ELSE IntOfSigned("+", t)

\* int(s): surrounding whitespace, one optional sign, digits that single
\* underscores may separate; anything else raises ValueError
py_int(s) == IntOfStripped(Strip(s))

\* two results in sequence: the first exception raised, or both values joined
Then(a, b) == IF ~a.ok THEN a ELSE IF ~b.ok THEN b ELSE Ret(a.val \o b.val)

\* str(n)
RECURSIVE IntToStr(_)
IntToStr(n) ==
    IF n < 0 THEN <<"-">> \o IntToStr(0 - n)
    ELSE IF n < 10 THEN <<DigitChars[n + 1]>>
    ELSE IntToStr(n \div 10) \o <<DigitChars[(n % 10) + 1]>>

\* f"{n:02d}"
Fmt02d(n) == IF n >= 0 /\ n < 10 THEN <<"0">> \o IntToStr(n) ELSE IntToStr(n)

\* f"{s:0>2}"
PadLeft2(s) ==
    IF Len(s) >= 2 THEN s
    ELSE IF Len(s) = 1 THEN <<"0">> \o s
    ELSE <<"0", "0">>

(***************************************************************************)
(* export.py: time_to_seconds                                              *)
(***************************************************************************)

\* the two return statements, given int() of each field: the fields are
\* converted left to right, and a field that is missing raises IndexError
seconds_of_parts(parts, n) ==
    IF Len(parts) = 2 THEN
        IF ~n[1].ok THEN Raise("ValueError")
        ELSE IF ~n[2].ok THEN Raise("ValueError")
        ELSE Ret(n[1].val * 60 + n[2].val)
    ELSE IF ~n[1].ok THEN Raise("ValueError")
    ELSE IF Len(parts) < 2 THEN Raise("IndexError")
    ELSE IF ~n[2].ok THEN Raise("ValueError")
    ELSE IF Len(parts) < 3 THEN Raise("IndexError")
    ELSE IF ~n[3].ok THEN Raise("ValueError")
    ELSE Ret(n[1].val * 3600 + n[2].val * 60 + n[3].val)

ints_of_parts(parts) == [k \in 1..Len(parts) |-> py_int(parts[k])]

time_to_seconds_of(parts) == seconds_of_parts(parts, ints_of_parts(parts))

time_to_seconds(time_code) == time_to_seconds_of(Split(time_code, ":"))

(***************************************************************************)
(* export.py: chapter export.  A Chapter is [time_code, title,             *)
(* description]; the formatters return the content, or raise.              *)
(***************************************************************************)

Chapter(time_code, title, description) ==
    [time_code |-> time_code, title |-> title, description |-> description]

youtube_entry(chapter) ==
    <<chapter.time_code \o <<" ">> \o chapter.title>>
        \o (IF Truthy(chapter.description)
            THEN <<<<" ", " ">> \o chapter.description.v>> ELSE <<>>)

RECURSIVE youtube_loop(_, _)
youtube_loop(chapters, i) ==
    IF i > Len(chapters) THEN <<>>
    ELSE youtube_entry(chapters[i]) \o youtube_loop(chapters, i + 1)

format_youtube_chapters(chapters) ==
    Join(<<<<"C", "h", "a", "p", "t", "e", "r", "s", ":">>>> \o youtube_loop(chapters, 1), <<"\n">>)

markdown_entry(i, chapter) ==
    <<<<"#", "#", " ">> \o IntToStr(i) \o <<".", " ">> \o chapter.title
        \o <<" ", "(">> \o chapter.time_code \o <<")">>>>
        \o (IF Truthy(chapter.description)
            THEN <<<<"\n">> \o chapter.description.v \o <<"\n">>>> ELSE <<>>)
        \o <<<<>>>>

RECURSIVE markdown_loop(_, _)
markdown_loop(chapters, i) ==
    IF i > Len(chapters) THEN <<>>
    ELSE markdown_entry(i, chapters[i]) \o markdown_loop(chapters, i + 1)

format_markdown_chapters(chapters) ==
    Join(<<<<"#", " ", "V", "i", "d", "e", "o", " ", "C", "h", "a", "p", "t", "e", "r", "s", "\n">>>> \o markdown_loop(chapters, 1), <<"\n">>)

\* start_time of one chapter from time_code.split(":"): parts[1] of a
\* one-part code raises IndexError; the fields are padded as text and never
\* converted
srt_start_time(parts) ==
    IF Len(parts) = 2 THEN
        Ret(<<"0", "0", ":">> \o PadLeft2(parts[1]) \o <<":">> \o PadLeft2(parts[2]) \o <<",", "0", "0", "0">>)
    ELSE IF Len(parts) < 3 THEN Raise("IndexError")
    ELSE Ret(PadLeft2(parts[1]) \o <<":">> \o PadLeft2(parts[2]) \o <<":">>
             \o PadLeft2(parts[3]) \o <<",", "0", "0", "0">>)

\* f"{start_time} --> {start_time[:-4]}30,000"
srt_time_range(start_time) ==
    start_time \o <<" ", "-", "-", ">", " ">> \o SubSeq(start_time, 1, Len(start_time) - 4) \o <<"3", "0", ",", "0", "0", "0">>

\* the lines appended for one chapter, given its start_time
srt_entry_lines(i, chapter, start_time) ==
    IF ~start_time.ok THEN start_time
    ELSE Ret(<<IntToStr(i), srt_time_range(start_time.val), chapter.title>>
             \o (IF Truthy(chapter.description)
                 THEN <<chapter.description.v>> ELSE <<>>)
             \o <<<<>>>>)

srt_entry(i, chapter) ==
    srt_entry_lines(i, chapter, srt_start_time(Split(chapter.time_code, ":")))

RECURSIVE srt_loop(_, _)
srt_loop(chapters, i) ==
    IF i > Len(chapters) THEN Ret(<<>>)
    ELSE Then(srt_entry(i, chapters[i]), srt_loop(chapters, i + 1))

\* "\n".join(lines), when building the lines raised nothing
JoinLines(lines) == IF ~lines.ok THEN lines ELSE Ret(Join(lines.val, <<"\n">>))

format_srt_chapters(chapters) == JoinLines(srt_loop(chapters, 1))

\* json.dumps of a str (ASCII): quotes, backslashes and control characters escaped
RECURSIVE json_escape(_)
json_escape(s) ==
    IF s = <<>> THEN <<>>
    ELSE (CASE s[1] = "\"" -> <<"\\", "\"">>
            [] s[1] = "\\" -> <<"\\", "\\">>
            [] s[1] = "\n" -> <<"\\", "n">>
            [] s[1] = "\t" -> <<"\\", "t">>
            [] s[1] = "\r" -> <<"\\", "r">>
            [] OTHER -> <<s[1]>>) \o json_escape(Tail(s))

json_str(s) == <<"\"">> \o json_escape(s) \o <<"\"">>

\* one chapter of json.dumps([c.model_dump() ...], indent=2)
json_entry(chapter, last) ==
    <<<<" ", " ", "{">>,
      <<" ", " ", " ", " ", "\"", "t", "i", "m", "e", "_", "c", "o", "d", "e", "\"", ":", " ">> \o json_str(chapter.time_code) \o <<",">>,
      <<" ", " ", " ", " ", "\"", "t", "i", "t", "l", "e", "\"", ":", " ">> \o json_str(chapter.title) \o <<",">>,
      <<" ", " ", " ", " ", "\"", "d", "e", "s", "c", "r", "i", "p", "t", "i", "o", "n", "\"", ":", " ">> \o (IF chapter.description.some
                                 THEN json_str(chapter.description.v) ELSE <<"n", "u", "l", "l">>),
      IF last THEN <<" ", " ", "}">> ELSE <<" ", " ", "}", ",">>>>

RECURSIVE json_loop(_, _)
json_loop(chapters, i) ==
    IF i > Len(chapters) THEN <<>>
    ELSE json_entry(chapters[i], i = Len(chapters)) \o json_loop(chapters, i + 1)

json_dumps_chapters(chapters) ==
    IF chapters = <<>> THEN <<"[", "]">>
    ELSE Join(<<<<"[">>>> \o json_loop(chapters, 1) \o <<<<"]">>>>, <<"\n">>)

(***************************************************************************)
(* export.py: script export.  A ScriptSegment is [time_code, narration].   *)
(***************************************************************************)

ScriptSegment(time_code, narration) ==
    [time_code |-> time_code, narration |-> narration]

\* len(narration.split(" ")): an empty narration counts one word
count_words_by_space(narration) == Len(Split(narration, " "))

\* len(narration.split())
count_words(narration) == Len(SplitWs(narration))

\* words / 2.5 seconds, in milliseconds
MsPerWord == 400

teleprompter_entry(segment) ==
    <<<<"[">> \o segment.time_code \o <<"]">>, <<>>, segment.narration, <<>>, <<"-", "-", "-">>, <<>>>>

RECURSIVE teleprompter_loop(_, _)
teleprompter_loop(segments, i) ==
    IF i > Len(segments) THEN <<>>
    ELSE teleprompter_entry(segments[i]) \o teleprompter_loop(segments, i + 1)

format_teleprompter(segments) == Join(teleprompter_loop(segments, 1), <<"\n">>)

\* end_time of a cue: end_seconds is a float; // and % floor it, int() keeps
\* the whole seconds, and the milliseconds printed are the literal 000
vtt_end_time_unwrapped(end_ms) ==
    Fmt02d(end_ms \div 3600000) \o <<":">> \o Fmt02d(end_ms \div 60000)
        \o <<":">> \o Fmt02d((end_ms % 60000) \div 1000) \o <<".", "0", "0", "0">>

vtt_end_time(end_ms) ==
    Fmt02d(end_ms \div 3600000) \o <<":">> \o Fmt02d((end_ms % 3600000) \div 60000)
        \o <<":">> \o Fmt02d((end_ms % 60000) \div 1000) \o <<".", "0", "0", "0">>

vtt_start_time(start) ==
    (IF CountChar(start, ":") = 1 THEN <<"0", "0", ":">> \o start ELSE start) \o <<".", "0", "0", "0">>

\* the lines appended for one cue, given time_to_seconds(start)
vtt_cue_lines(i, segment, duration_ms, start_seconds) ==
    IF ~start_seconds.ok THEN start_seconds
    ELSE Ret(<<IntToStr(i),
               vtt_start_time(segment.time_code) \o <<" ", "-", "-", ">", " ">>
                   \o vtt_end_time(start_seconds.val * 1000 + duration_ms),
               segment.narration,
               <<>>>>)

\* the body of format_vtt's loop for the segment at 1-based position i
\* (the code's i + 1), at ms_per_word milliseconds a word
vtt_cue(i, segment, ms_per_word) ==
    vtt_cue_lines(i, segment, count_words(segment.narration) * ms_per_word,
                  time_to_seconds(segment.time_code))

RECURSIVE vtt_loop(_, _, _)
vtt_loop(segments, i, ms_per_word) ==
    IF i > Len(segments) THEN Ret(<<>>)
    ELSE Then(vtt_cue(i, segments[i], ms_per_word),
              vtt_loop(segments, i + 1, ms_per_word))

format_vtt(segments) ==
    JoinLines(Then(Ret(<<<<"W", "E", "B", "V", "T", "T">>, <<>>>>), vtt_loop(segments, 1, MsPerWord)))

\* format_vtt with the cue duration taken from the request's reading speed
format_vtt_at_speed(segments, wpm) ==
    JoinLines(Then(Ret(<<<<"W", "E", "B", "V", "T", "T">>, <<>>>>), vtt_loop(segments, 1, 60000 \div wpm)))

\* content.replace("WEBVTT\n\n", "").replace(".", ",")
vtt_to_srt(content) ==
    IF ~content.ok THEN content
    ELSE Ret(Replace(Replace(content.val, <<"W", "E", "B", "V", "T", "T", "\n", "\n">>, <<>>), <<".">>, <<",">>))

script_markdown_entry(segment) ==
    <<<<"#", "#", " ", "[">> \o segment.time_code \o <<"]">>, <<"\n">> \o segment.narration \o <<"\n">>>>

RECURSIVE script_markdown_loop(_, _)
script_markdown_loop(segments, i) ==
    IF i > Len(segments) THEN <<>>
    ELSE script_markdown_entry(segments[i]) \o script_markdown_loop(segments, i + 1)

format_script_markdown(segments) ==
    Join(<<<<"#", " ", "N", "a", "r", "r", "a", "t", "i", "o", "n", " ", "S", "c", "r", "i", "p", "t", "\n">>>> \o script_markdown_loop(segments, 1), <<"\n">>)

RECURSIVE total_words(_)
total_words(segments) ==
    IF segments = <<>> THEN 0
    ELSE count_words(Head(segments).narration) + total_words(Tail(segments))

(***************************************************************************)
(* The HTTP layer: pydantic validates the request model before the         *)
(* handler runs (422), HTTPException gives its status, and an exception    *)
(* the handler does not catch is answered with 500.                        *)
(***************************************************************************)

NoEstimate == [some |-> FALSE, num |-> 0, den |-> 1]
\* a float quotient num / den
Estimate(num, den) == [some |-> TRUE, num |-> num, den |-> den]

NoRequest ==
    [endpoint |-> "", items |-> <<>>, format |-> "", reading_speed_wpm |-> 0]
NoResponse ==
    [status |-> 0, detail |-> "", format |-> "", content |-> <<>>, filename |-> "",
     estimated_duration_seconds |-> NoEstimate]

ResponseModel(format, content, filename, estimate) ==
    [status |-> 200, detail |-> "", format |-> format, content |-> content,
     filename |-> filename, estimated_duration_seconds |-> estimate]
HTTPException(status_code, detail) ==
    [NoResponse EXCEPT !.status = status_code, !.detail = detail]
ValidationError == HTTPException(422, "validation error")
InternalServerError(exc) == HTTPException(500, exc)

ChapterFormats == {"youtube", "markdown", "srt", "json"}
ScriptFormats == {"teleprompter", "srt", "vtt", "markdown"}
MinWpm == 100
MaxWpm == 250

ValidExportChaptersRequest(req) == req.format \in ChapterFormats

ValidExportScriptRequest(req) ==
    /\ req.format \in ScriptFormats
    /\ req.reading_speed_wpm >= MinWpm
    /\ req.reading_speed_wpm <= MaxWpm

\* the return statement of a handler, reached unless building the content raised
Respond(format, content, filename, estimate) ==
    IF content.ok THEN ResponseModel(format, content.val, filename, estimate)
    ELSE InternalServerError(content.exc)

Ran(resp, names) == [response |-> resp, called |-> names]

\* the format dispatch of export_chapters and its return statement
export_chapters_as(req) ==
    IF req.format = "youtube" THEN
        Ran(Respond(req.format, Ret(format_youtube_chapters(req.items)),
                    "chapters.txt", NoEstimate),
            {"format_youtube_chapters"})
    ELSE IF req.format = "markdown" THEN
        Ran(Respond(req.format, Ret(format_markdown_chapters(req.items)),
                    "chapters.md", NoEstimate),
            {"format_markdown_chapters"})
    ELSE IF req.format = "srt" THEN
        Ran(Respond(req.format, format_srt_chapters(req.items),
                    "chapters.srt", NoEstimate),
            {"format_srt_chapters"})
    ELSE
        Ran(Respond(req.format, Ret(json_dumps_chapters(req.items)),
                    "chapters.json", NoEstimate),
            {"json.dumps"})

\* export_chapters without its empty-list check
export_chapters_unchecked(req) == export_chapters_as(req)

\* the handler of POST /export/chapters: its response and the formatters it ran
export_chapters(req) ==
    IF req.items = <<>> THEN Ran(HTTPException(400, "No chapters provided"), {})
    ELSE export_chapters_as(req)

\* export_script with one estimate for the cues and the total
export_script_unified(req, estimated_duration) ==
    IF req.format = "teleprompter" THEN
        Ran(Respond(req.format, Ret(format_teleprompter(req.items)),
                    "script_teleprompter.txt", estimated_duration),
            {"format_teleprompter"})
    ELSE IF req.format = "vtt" THEN
        Ran(Respond(req.format, format_vtt_at_speed(req.items, req.reading_speed_wpm),
                    "script.vtt", estimated_duration),
            {"format_vtt"})
    ELSE IF req.format = "srt" THEN
        Ran(Respond(req.format,
                    vtt_to_srt(format_vtt_at_speed(req.items, req.reading_speed_wpm)),
                    "script.srt", estimated_duration),
            {"format_vtt"})
    ELSE
        Ran(Respond(req.format, Ret(format_script_markdown(req.items)),
                    "script.md", estimated_duration),
            {"markdown"})

\* the handler of POST /export/script below its empty-list check, given
\* estimated_duration = (total_words / reading_speed_wpm) * 60
export_script_with(req, estimated_duration) ==
    IF req.format = "teleprompter" THEN
        Ran(Respond(req.format, Ret(format_teleprompter(req.items)),
                    "script_teleprompter.txt", estimated_duration),
            {"format_teleprompter"})
    ELSE IF req.format = "vtt" THEN
        Ran(Respond(req.format, format_vtt(req.items),
                    "script.vtt", estimated_duration),
            {"format_vtt"})
    ELSE IF req.format = "srt" THEN
        Ran(Respond(req.format, vtt_to_srt(format_vtt(req.items)),
                    "script.srt", estimated_duration),
            {"format_vtt"})
    ELSE
        Ran(Respond(req.format, Ret(format_script_markdown(req.items)),
                    "script.md", estimated_duration),
            {"markdown"})

\* the handler of POST /export/script; a speed of 0 would raise
\* ZeroDivisionError before any formatter runs
export_script(req) ==
    IF req.items = <<>> THEN
        Ran(HTTPException(400, "No script segments provided"), {})
    ELSE IF req.reading_speed_wpm = 0 THEN
        Ran(InternalServerError("ZeroDivisionError"), {})
    ELSE 
        export_script_with(
            req, Estimate(total_words(req.items) * 60, req.reading_speed_wpm))

(***************************************************************************)
(* narrate.py: JSON values, the model reply and its parsing                *)
(***************************************************************************)

\* a value json.loads can return
JNull == [kind |-> "null", str |-> <<>>, num |-> 0, keys |-> <<>>, items |-> <<>>]
JStr(s) == [JNull EXCEPT !.kind = "str", !.str = s]
JInt(n) == [JNull EXCEPT !.kind = "int", !.num = n]
JList(items) == [JNull EXCEPT !.kind = "list", !.items = items]
JDict(keys, items) == [JNull EXCEPT !.kind = "dict", !.keys = keys, !.items = items]

HasKey(d, key) == \E k \in 1..Len(d.keys) : d.keys[k] = key
\* d.get(key, default)
DictGet(d, key, default) ==
    IF HasKey(d, key) THEN d.items[CHOOSE k \in 1..Len(d.keys) : d.keys[k] = key]
    ELSE default

\* s[:n]
Take(s, n) == SubSeq(s, 1, Min({n, Len(s)}))
\* s[n:]
Drop(s, n) == SubSeq(s, Min({n, Len(s)}) + 1, Len(s))
StartsWith(s, p) == IsPrefixAt(s, p, 1)
EndsWith(s, p) == Len(p) <= Len(s) /\ SubSeq(s, Len(s) - Len(p) + 1, Len(s)) = p

\* the JSON documents the model is taken to reply with, each with the value
\* json.loads gives it; every other text is no JSON document
JsonDocuments ==
    { <<<<"{", "}">>, JDict(<<>>, <<>>)>>,
      <<<<"[", "]">>, JList(<<>>)>>,
      <<<<"1">>, JInt(1)>>,
      <<<<"{", "\"", "c", "h", "a", "p", "t", "e", "r", "s", "\"", ":", "[", "{", "}", "]", "}">>,
        JDict(<<<<"c", "h", "a", "p", "t", "e", "r", "s">>>>, <<JList(<<JDict(<<>>, <<>>)>>)>>)>>,
      <<<<"{", "\"", "c", "h", "a", "p", "t", "e", "r", "s", "\"", ":", "[", "{", "\"", "t", "i", "t", "l", "e", "\"", ":", "\"", "A", "\"", ",", "\"", "t", "i", "m", "e", "_", "c", "o", "d", "e", "\"", ":", "\"", "0", "1", ":", "0", "0", "\"", ",", "\"", "d", "e", "s", "c", "r", "i", "p", "t", "i", "o", "n", "\"", ":", "n", "u", "l", "l", "}", "]", ",", "\"", "s", "c", "r", "i", "p", "t", "\"", ":", "[", "{", "\"", "n", "a", "r", "r", "a", "t", "i", "o", "n", "\"", ":", "\"", "H", "i", ".", "\"", "}", "]", "}">>,
        JDict(<<<<"c", "h", "a", "p", "t", "e", "r", "s">>, <<"s", "c", "r", "i", "p", "t">>>>,
              << JList(<<JDict(<<<<"t", "i", "t", "l", "e">>, <<"t", "i", "m", "e", "_", "c", "o", "d", "e">>, <<"d", "e", "s", "c", "r", "i", "p", "t", "i", "o", "n">>>>,
                               <<JStr(<<"A">>), JStr(<<"0", "1", ":", "0", "0">>), JNull>>)>>),
                 JList(<<JDict(<<<<"n", "a", "r", "r", "a", "t", "i", "o", "n">>>>, <<JStr(<<"H", "i", ".">>)>>)>>) >>)>>,
      <<<<"{", "\"", "c", "h", "a", "p", "t", "e", "r", "s", "\"", ":", "[", "{", "\"", "t", "i", "t", "l", "e", "\"", ":", "1", "}", "]", "}">>,
        JDict(<<<<"c", "h", "a", "p", "t", "e", "r", "s">>>>, <<JList(<<JDict(<<<<"t", "i", "t", "l", "e">>>>, <<JInt(1)>>)>>)>>)>>,
      <<<<"{", "\"", "c", "h", "a", "p", "t", "e", "r", "s", "\"", ":", "[", "\"", "x", "\"", "]", "}">>,
        JDict(<<<<"c", "h", "a", "p", "t", "e", "r", "s">>>>, <<JList(<<JStr(<<"x">>)>>)>>)>>,
      <<<<"{", "\"", "c", "h", "a", "p", "t", "e", "r", "s", "\"", ":", "2", "}">>, JDict(<<<<"c", "h", "a", "p", "t", "e", "r", "s">>>>, <<JInt(2)>>)>>,
      <<<<"{", "\"", "s", "c", "r", "i", "p", "t", "\"", ":", "2", "}">>, JDict(<<<<"s", "c", "r", "i", "p", "t">>>>, <<JInt(2)>>)>> }

\* json.loads(text): leading and trailing whitespace is skipped
json_loads_stripped(text) ==
    IF \E doc \in JsonDocuments : doc[1] = text
    THEN Ret((CHOOSE doc \in JsonDocuments : doc[1] = text)[2])
    ELSE Raise("JSONDecodeError")
json_loads(text) == json_loads_stripped(Strip(text))

\* the character U+0060, which no TLA+ string can hold
Backtick == "backtick"

\* knows no json tag
strip_json_fence_untagged(text) == text

\* text[7:] if text starts with the fence and the json tag
strip_json_fence(text) == IF StartsWith(text, <<Backtick, Backtick, Backtick, "j", "s", "o", "n">>) THEN Drop(text, 7) ELSE text
\* text[3:] if text starts with the fence
strip_open_fence(text) == IF StartsWith(text, <<Backtick, Backtick, Backtick>>) THEN Drop(text, 3) ELSE text
\* text[:-3] if text ends with the fence
strip_close_fence(text) ==
    IF EndsWith(text, <<Backtick, Backtick, Backtick>>) THEN SubSeq(text, 1, Len(text) - 3) ELSE text
strip_fences(text) == strip_close_fence(strip_open_fence(strip_json_fence(text)))

\* models.Chapter, as narrate.py builds it (formatted keeps its default)
models_Chapter(time_code, title, description) ==
    [time_code |-> time_code, title |-> title, description |-> description,
     formatted |-> None]

\* type(j).__name__
TypeName(j) ==
    IF j.kind = "null" THEN <<"N", "o", "n", "e", "T", "y", "p", "e">>
    ELSE IF j.kind = "str" THEN <<"s", "t", "r">>
    ELSE IF j.kind = "int" THEN <<"i", "n", "t">>
    ELSE IF j.kind = "list" THEN <<"l", "i", "s", "t">>
    ELSE <<"d", "i", "c", "t">>

NoAttributeGet(j) == <<"'">> \o TypeName(j) \o <<"'", " ", "o", "b", "j", "e", "c", "t", " ", "h", "a", "s", " ", "n", "o", " ", "a", "t", "t", "r", "i", "b", "u", "t", "e", " ", "'", "g", "e", "t", "'">>
NotIterable(j) == <<"'">> \o TypeName(j) \o <<"'", " ", "o", "b", "j", "e", "c", "t", " ", "i", "s", " ", "n", "o", "t", " ", "i", "t", "e", "r", "a", "b", "l", "e">>
HasNoLen(j) == <<"o", "b", "j", "e", "c", "t", " ", "o", "f", " ", "t", "y", "p", "e", " ", "'">> \o TypeName(j) \o <<"'", " ", "h", "a", "s", " ", "n", "o", " ", "l", "e", "n", "(", ")">>
ChapterValidationError == <<"1", " ", "v", "a", "l", "i", "d", "a", "t", "i", "o", "n", " ", "e", "r", "r", "o", "r", " ", "f", "o", "r", " ", "C", "h", "a", "p", "t", "e", "r">>

\* Chapter(time_code=.., title=.., description=..) on the three values read
\* from ch: the str fields must be str, description may be None
chapter_of_fields(time_code, title, description) ==
    IF time_code.kind = "str" /\ title.kind = "str" /\ description.kind \in {"str", "null"}
    THEN Ret(<<models_Chapter(time_code.str, title.str,
                              IF description.kind = "null" THEN None
                              ELSE Some(description.str))>>)
    ELSE Raise(ChapterValidationError)

\* one element of the list comprehension
chapter_of(ch) ==
    IF ch.kind # "dict" THEN Raise(NoAttributeGet(ch))
    ELSE chapter_of_fields(DictGet(ch, <<"t", "i", "m", "e", "_", "c", "o", "d", "e">>, JStr(<<"0", "0", ":", "0", "0">>)),
                           DictGet(ch, <<"t", "i", "t", "l", "e">>, JStr(<<"C", "h", "a", "p", "t", "e", "r">>)),
                           DictGet(ch, <<"d", "e", "s", "c", "r", "i", "p", "t", "i", "o", "n">>, JNull))

RECURSIVE chapters_loop(_, _)
chapters_loop(items, i) ==
    IF i > Len(items) THEN Ret(<<>>)
    ELSE Then(chapter_of(items[i]), chapters_loop(items, i + 1))

\* what iterating over a JSON value yields: a dict yields its keys and a
\* str its characters
elements_of(j) ==
    IF j.kind = "list" THEN j.items
    ELSE IF j.kind = "dict" THEN [k \in 1..Len(j.keys) |-> JStr(j.keys[k])]
    ELSE [k \in 1..Len(j.str) |-> JStr(<<j.str[k]>>)]

\* [Chapter(...) for ch in data.get("chapters", [])]
chapters_of_value(j) ==
    IF j.kind \in {"int", "null"} THEN Raise(NotIterable(j))
    ELSE chapters_loop(elements_of(j), 1)

(***************************************************************************)
(* narrate.py: the prompt, the handlers and the process-wide model handle  *)
(***************************************************************************)

EventLimit == 20
PoiLimit == 3
TranscriptLimit == 2000

\* ", ".join of the first three landmark names, or "No landmarks"
pois_text(event) ==
    IF event.pois = <<>> THEN <<"N", "o", " ", "l", "a", "n", "d", "m", "a", "r", "k", "s">>
    ELSE Join(Take(event.pois, PoiLimit), <<",", " ">>)

\* one line of event_descriptions, kept as its three interpolated parts
event_description(event) ==
    [timestamp |-> event.timestamp, pois |-> pois_text(event),
     location |-> event.location]

\* the prompt, kept as the two parts of it that depend on the request
build_narration_prompt(req) ==
    [events |-> [k \in 1..Min({EventLimit, Len(req.events)}) |->
                    event_description(req.events[k])],
     transcript |-> IF Truthy(req.transcript)
                    THEN Take(req.transcript.v, TranscriptLimit) ELSE <<>>]

NoPrompt == [events |-> <<>>, transcript |-> <<>>]

\* the outcome of model.generate_content(...).text as the service saw it
NoReply == [called |-> FALSE, ok |-> FALSE, text |-> <<>>, error |-> <<>>]
ReplyText(text) == [NoReply EXCEPT !.called = TRUE, !.ok = TRUE, !.text = text]
ReplyError(e) == [NoReply EXCEPT !.called = TRUE, !.error = e]
ReplySeen(reply) == IF reply.ok THEN ReplyText(reply.val) ELSE ReplyError(reply.exc)

\* the process-wide handle: NoModel is None, k > 0 the k-th client built
NoModel == 0
NoKey == <<>>

\* get_gemini_model with the handle, the credential and the number of
\* clients built so far: the handle it leaves in _gemini_model and returns
get_gemini_model_always(handle, key, built) ==
    IF handle = NoModel THEN built + 1 ELSE handle

\* builds a client on every call
get_gemini_model_rebuilding(handle, key, built) ==
    IF key # NoKey THEN built + 1 ELSE handle

get_gemini_model(handle, key, built) ==
    IF handle = NoModel /\ key # NoKey THEN built + 1 ELSE handle

\* get_gemini_model() statement by statement, for callers that run it at
\* the same time: the test of line 31, and the handle the return gives,
\* the global read at that moment
needs_model(handle, key) == handle = NoModel /\ key # NoKey
\* gives what the caller saw at its test
returned_handle_seen(seen, handle) == seen
returned_handle(seen, handle) == handle

\* the client that genai.GenerativeModel('gemini-2.0-flash') builds
GenerativeModel(handle) == [id |-> handle, model_name |-> <<"g", "e", "m", "i", "n", "i", "-", "2", ".", "0", "-", "f", "l", "a", "s", "h">>]

\* a caller of get_gemini_model(): where it is, what it saw at its test,
\* the client it has built and not yet stored, and what it got back
Caller(pc, seen, made, result) == [pc |-> pc, seen |-> seen, made |-> made, result |-> result]
MaxCallers == 3
NoCallers == callers = [c \in 1..MaxCallers |-> Caller("idle", NoModel, NoModel, NoModel)]

NoScript == [some |-> FALSE, segments |-> JNull]
Segments(script) == [some |-> TRUE, segments |-> script]

NoNarrateResponse ==
    [status |-> 0, detail |-> <<>>, chapters |-> <<>>, script |-> NoScript,
     meta |-> [engine |-> "", reason |-> None]]
NarrateResponse(chapters, script, meta) ==
    [NoNarrateResponse EXCEPT !.status = 200, !.chapters = chapters,
                              !.script = script, !.meta = meta]
NarrateHTTPException(status_code, detail) ==
    [NoNarrateResponse EXCEPT !.status = status_code, !.detail = detail]
NarrateValidationError == NarrateHTTPException(422, <<"v", "a", "l", "i", "d", "a", "t", "i", "o", "n", " ", "e", "r", "r", "o", "r">>)

\* the response narrate.py returns when get_gemini_model() gave None
placeholder_response ==
    NarrateResponse(
        << models_Chapter(<<"0", "0", ":", "0", "0">>, <<"J", "o", "u", "r", "n", "e", "y", " ", "B", "e", "g", "i", "n", "s">>, Some(<<"S", "t", "a", "r", "t", "i", "n", "g", " ", "o", "u", "r", " ", "a", "d", "v", "e", "n", "t", "u", "r", "e">>)),
           models_Chapter(<<"0", "5", ":", "0", "0">>, <<"M", "a", "i", "n", " ", "D", "e", "s", "t", "i", "n", "a", "t", "i", "o", "n">>,
                          Some(<<"A", "r", "r", "i", "v", "i", "n", "g", " ", "a", "t", " ", "t", "h", "e", " ", "m", "a", "i", "n", " ", "l", "o", "c", "a", "t", "i", "o", "n">>)) >>,
        NoScript,
        [engine |-> "placeholder", reason |-> Some(<<"G", "E", "M", "I", "N", "I", "_", "A", "P", "I", "_", "K", "E", "Y", " ", "n", "o", "t", " ", "c", "o", "n", "f", "i", "g", "u", "r", "e", "d">>)])

generation_failed(text) == NarrateHTTPException(500, <<"A", "I", " ", "g", "e", "n", "e", "r", "a", "t", "i", "o", "n", " ", "f", "a", "i", "l", "e", "d", ":", " ">> \o text)
parse_failed == NarrateHTTPException(500, <<"F", "a", "i", "l", "e", "d", " ", "t", "o", " ", "p", "a", "r", "s", "e", " ", "A", "I", " ", "r", "e", "s", "p", "o", "n", "s", "e">>)

\* the tail of the try block, from the script read out of data
response_of_script(chapters, script) ==
    IF script.kind \in {"int", "null"} THEN generation_failed(HasNoLen(script))
    ELSE NarrateResponse(chapters, Segments(script),
                         [engine |-> "gemini-2.0-flash", reason |-> None])

\* the try block from the chapters built out of data
response_of_chapters(chapters, data) ==
    IF ~chapters.ok THEN generation_failed(chapters.exc)
    ELSE response_of_script(chapters.val, DictGet(data, <<"s", "c", "r", "i", "p", "t">>, JList(<<>>)))

\* the try block from the value json.loads returned
response_of_data(data) ==
    IF data.kind # "dict" THEN generation_failed(NoAttributeGet(data))
    ELSE response_of_chapters(
             chapters_of_value(DictGet(data, <<"c", "h", "a", "p", "t", "e", "r", "s">>, JList(<<>>))), data)

response_of_parse_any_exception(parsed) ==
    IF ~parsed.ok THEN generation_failed(<<"E", "x", "p", "e", "c", "t", "i", "n", "g", " ", "v", "a", "l", "u", "e">>) ELSE response_of_data(parsed.val)

\* the try block from the outcome of json.loads
response_of_parse(parsed) ==
    IF ~parsed.ok THEN parse_failed ELSE response_of_data(parsed.val)

\* the try block from the outcome of model.generate_content(...).text
response_of_reply(reply) ==
    IF ~reply.ok THEN generation_failed(reply.exc)
    ELSE response_of_parse(json_loads(strip_fences(Strip(reply.val))))

\* calls the model a second time after a failed call
generate_narration_retrying(req, model, reply) ==
    IF model = NoModel
    THEN [response |-> placeholder_response, invoked |-> 0, prompt |-> NoPrompt,
          reply |-> NoReply]
    ELSE [response |-> response_of_reply(reply), invoked |-> IF reply.ok THEN 1 ELSE 2,
          prompt |-> build_narration_prompt(req), reply |-> ReplySeen(reply)]

\* generate_narration after get_gemini_model() returned model; reply is
\* what the model call gives if it is made
generate_narration(req, model, reply) ==
    IF model = NoModel
    THEN [response |-> placeholder_response, invoked |-> 0, prompt |-> NoPrompt,
          reply |-> NoReply]
    ELSE [response |-> response_of_reply(reply), invoked |-> 1,
          prompt |-> build_narration_prompt(req), reply |-> ReplySeen(reply)]

NoStatus == [online_available |-> FALSE, offline_available |-> FALSE, engine |-> "-"]
\* narration_status after get_gemini_model() returned model
narration_status(model) ==
    [online_available |-> model # NoModel, offline_available |-> FALSE,
     engine |-> IF model # NoModel THEN "gemini-2.0-flash" ELSE "None"]

NoNarrateRequest == [endpoint |-> "", valid |-> TRUE, events |-> <<>>, transcript |-> None]
NarrateRequest(events, transcript) ==
    [NoNarrateRequest EXCEPT !.endpoint = "/narrate", !.events = events,
                             !.transcript = transcript]
\* a body without truth_bundle
InvalidNarrateRequest == [NoNarrateRequest EXCEPT !.endpoint = "/narrate", !.valid = FALSE]
StatusRequest == [NoNarrateRequest EXCEPT !.endpoint = "/narrate/status"]

(***************************************************************************)
(* cache.py: Redis behind the Cache service.  A float of degrees is kept   *)
(* exactly, as an integer of 1e-5 degrees.                                 *)
(***************************************************************************)

Abs(n) == IF n < 0 THEN 0 - n ELSE n

\* the digits of a fraction of 5 places, without its trailing zeros
RECURSIVE FractionDigits(_, _)
FractionDigits(frac, places) ==
    IF places = 1 \/ frac % 10 # 0
    THEN (IF places > 1 /\ frac < 10 ^ (places - 1)
          THEN [k \in 1..(places - Len(IntToStr(frac))) |-> "0"] ELSE <<>>)
         \o IntToStr(frac)
    ELSE FractionDigits(frac \div 10, places - 1)

\* repr(x) of a float x of at most 5 decimals that is 0 or at least 1e-4
float_repr(x5) ==
    (IF x5 < 0 THEN <<"-">> ELSE <<>>)
        \o IntToStr(Abs(x5) \div 100000) \o <<".">> \o FractionDigits(Abs(x5) % 100000, 5)

\* x rounded to 4 decimals, in 1e-4 degrees (x is no tie)
Round4(x5) == (x5 + 5) \div 10

\* f"{x:.4f}"
Fmt4f(x5) ==
    (IF Round4(x5) < 0 THEN <<"-">> ELSE <<>>)
        \o IntToStr(Abs(Round4(x5)) \div 10000) \o <<".">>
        \o SubSeq(IntToStr(10000 + (Abs(Round4(x5)) % 10000)), 2, 5)

Namespace == <<"g", "e", "o", "t", "r", "u", "t", "h">>
\* Cache._key
NamespacedKey(key) == Namespace \o <<":">> \o key

\* the Redis server: the entries it holds, by key
NoEntries == {}
Stored(store, key) == \E e \in store : e.key = key
ValueOf(store, key) == (CHOOSE e \in store : e.key = key).value
Put(store, key, value) ==
    { e \in store : e.key # key } \cup {[key |-> key, value |-> value]}
Remove(store, key) == { e \in store : e.key # key }

\* Redis as a request sees it: the entries, the pool handle (_redis_pool,
\* 0 for None), the availability of the server at each command to come
\* (and up after these), what the other requests and the expiry of
\* entries do to the entries before each command to come (and nothing
\* after these), and the commands done
World(store, pool, ups, log) ==
    [store |-> store, pool |-> pool, ups |-> ups, others |-> <<>>, log |-> log]
\* what happens between two awaited commands of a request: entries
\* expire, other requests set entries
Meanwhile(removes, puts) == [removes |-> removes, puts |-> puts]
Among(w, others) == [w EXCEPT !.others = others]
NoPool == 0
\* get_redis(): the pool is created on first use and kept
get_redis(pool) == IF pool = NoPool THEN 1 ELSE pool

\* the server answers the next command, or the command raises; past the
\* end of ups the server is up
Up(w) == w.ups = <<>> \/ Head(w.ups)
\* the entries the next command finds
Seen(w) ==
    IF w.others = <<>> THEN w.store
    ELSE { e \in w.store :
              /\ e.key \notin Head(w.others).removes
              /\ \A p \in Head(w.others).puts : p.key # e.key }
            \cup Head(w.others).puts
Logged(w, op, key) ==
    [w EXCEPT !.pool = get_redis(w.pool), !.ups = IF w.ups = <<>> THEN <<>> ELSE Tail(w.ups),
              !.store = Seen(w),
              !.others = IF w.others = <<>> THEN <<>> ELSE Tail(w.others),
              !.log = Append(w.log, [op |-> op, key |-> key, ok |-> Up(w)])]

\* EnrichResponse of enrich_point: the placeholder context and no POIs
EnrichResponse(lat, lon) ==
    [location |-> [lat |-> lat, lon |-> lon, matched |-> "None"],
     context |-> [country |-> "United States", timezone |-> "America/Los_Angeles",
                  elevation_m |-> "None"],
     pois |-> <<>>]
NoEnrichResponse ==
    [location |-> [lat |-> 0, lon |-> 0, matched |-> ""],
     context |-> [country |-> "", timezone |-> "", elevation_m |-> ""],
     pois |-> <<>>]

\* MapMatchResponse
MapMatchResponse(matched_points, edges, route) ==
    [matched_points |-> matched_points, edges |-> edges, route |-> route]
EmptyMapMatchResponse == MapMatchResponse(<<>>, <<>>, JDict(<<>>, <<>>))

\* what json.dumps(model.model_dump()) stores and json.loads gives back:
\* the fields of the model, which JSON carries unchanged
DumpedEnrich(resp) ==
    [kind |-> "EnrichResponse", enrich |-> resp, mapmatch |-> EmptyMapMatchResponse]
DumpedMapMatch(resp) ==
    [kind |-> "MapMatchResponse", enrich |-> NoEnrichResponse, mapmatch |-> resp]

NoValue ==
    [some |-> FALSE,
     v |-> [kind |-> "", enrich |-> NoEnrichResponse, mapmatch |-> EmptyMapMatchResponse]]
SomeValue(v) == [some |-> TRUE, v |-> v]

\* Cache.get: the value under the key, or None on a miss and on every error
cache_get_raising(w, key) ==
    [w |-> Logged(w, "get", key), raised |-> ~Up(w),
     val |-> IF Up(w) /\ Stored(Seen(w), NamespacedKey(key))
             THEN SomeValue(ValueOf(Seen(w), NamespacedKey(key))) ELSE NoValue]

cache_get(w, key) ==
    [w |-> Logged(w, "get", key), raised |-> FALSE,
     val |-> IF Up(w) /\ Stored(Seen(w), NamespacedKey(key))
             THEN SomeValue(ValueOf(Seen(w), NamespacedKey(key))) ELSE NoValue]

\* Cache.set: True, or False on every error
cache_set(w, key, value) ==
    [w |-> [Logged(w, "set", key) EXCEPT
                !.store = IF Up(w) THEN Put(Seen(w), NamespacedKey(key), value)
                          ELSE Seen(w)],
     raised |-> FALSE, val |-> Up(w)]

\* Cache.delete: True (also when there was no such key), or False on every error
cache_delete(w, key) ==
    [w |-> [Logged(w, "delete", key) EXCEPT
                !.store = IF Up(w) THEN Remove(Seen(w), NamespacedKey(key))
                          ELSE Seen(w)],
     raised |-> FALSE, val |-> Up(w)]

\* Cache.exists: whether the key is there, or False on every error
cache_exists(w, key) ==
    [w |-> Logged(w, "exists", key), raised |-> FALSE,
     val |-> Up(w) /\ Stored(Seen(w), NamespacedKey(key))]

(***************************************************************************)
(* enrich.py: /enrich and /enrich_batch                                    *)
(***************************************************************************)

\* EnrichRequest: lat and lon, in 1e-5 degrees
EnrichRequest(lat, lon) == [lat |-> lat, lon |-> lon]
ValidEnrichRequest(point) ==
    /\ point.lat >= -9000000 /\ point.lat <= 9000000
    /\ point.lon >= -18000000 /\ point.lon <= 18000000

\* f"enrich:{lat:.4f}:{lon:.4f}"
enrich_cache_key(point) == <<"e", "n", "r", "i", "c", "h", ":">> \o Fmt4f(point.lat) \o <<":">> \o Fmt4f(point.lon)

\* the outcome of enrich_point: Redis afterwards, the response or the
\* exception, and whether the response came out of the cache
Enriched(w, resp, from_cache) ==
    [w |-> w, raised |-> FALSE, response |-> resp, from_cache |-> from_cache]
EnrichRaised(w) ==
    [w |-> w, raised |-> TRUE, response |-> NoEnrichResponse, from_cache |-> FALSE]

\* enrich_point from cache.set on: its result is not read
enrich_point_after_set(s, resp) ==
    IF s.raised THEN EnrichRaised(s.w) ELSE Enriched(s.w, resp, FALSE)

\* enrich_point from cache.get on
enrich_point_after_get(g, point, cache_key) ==
    IF g.raised THEN EnrichRaised(g.w)
    ELSE IF g.val.some THEN Enriched(g.w, g.val.v.enrich, TRUE)
    ELSE enrich_point_after_set(
             cache_set(g.w, cache_key, DumpedEnrich(EnrichResponse(point.lat, point.lon))),
             EnrichResponse(point.lat, point.lon))

enrich_point_keyed(w, point, cache_key) ==
    enrich_point_after_get(cache_get(w, cache_key), point, cache_key)

enrich_point(w, point) == enrich_point_keyed(w, point, enrich_cache_key(point))

\* the responses of the geo routes
NoGeoResponse ==
    [status |-> 0, detail |-> "", enrich |-> NoEnrichResponse, results |-> <<>>,
     total_points |-> 0, cache_hits |-> 0, mapmatch |-> EmptyMapMatchResponse]
GeoHTTPException(status_code, detail) ==
    [NoGeoResponse EXCEPT !.status = status_code, !.detail = detail]
GeoValidationError == GeoHTTPException(422, "validation error")

\* what a handler gave: Redis afterwards, the response, and how many of
\* the results came out of the cache
GeoOutcome(w, resp, served) == [w |-> w, response |-> resp, served |-> served]

\* enrich, from the outcome of enrich_point on
enrich_after(r) ==
    IF r.raised THEN GeoOutcome(r.w, GeoHTTPException(500, "cache error"), 0)
    ELSE GeoOutcome(r.w, [NoGeoResponse EXCEPT !.status = 200, !.enrich = r.response],
                    IF r.from_cache THEN 1 ELSE 0)

enrich(w, point) == enrich_after(enrich_point(w, point))

MaxBatchPoints == 100

\* the state of the loop of enrich_batch
BatchState(w, raised, results, cache_hits, served) ==
    [w |-> w, raised |-> raised, results |-> results, cache_hits |-> cache_hits,
     served |-> served]

\* one round of the loop, from enrich_point on
batch_after_point(st, hit, r) ==
    IF r.raised THEN BatchState(r.w, TRUE, st.results, st.cache_hits, st.served)
    ELSE BatchState(r.w, FALSE, Append(st.results, r.response),
                    st.cache_hits + (IF hit THEN 1 ELSE 0),
                    st.served + (IF r.from_cache THEN 1 ELSE 0))

\* one round of the loop, from cache.exists on
batch_after_exists(st, e, point) ==
    IF e.raised THEN BatchState(e.w, TRUE, st.results, st.cache_hits, st.served)
    ELSE batch_after_point(st, e.val, enrich_point(e.w, point))

batch_round(st, point) ==
    batch_after_exists(st, cache_exists(st.w, enrich_cache_key(point)), point)

\* the loop from its round i on; an exception ends it
RECURSIVE batch_loop(_, _, _)
batch_loop(st, points, i) ==
    IF st.raised \/ i > Len(points) THEN st
    ELSE batch_loop(batch_round(st, points[i]), points, i + 1)

\* enrich_batch, from the end of the loop on
enrich_batch_after(st, points) ==
    IF st.raised THEN GeoOutcome(st.w, GeoHTTPException(500, "Internal Server Error"), 0)
    ELSE GeoOutcome(st.w,
                    [NoGeoResponse EXCEPT !.status = 200, !.results = st.results,
                                          !.total_points = Len(points),
                                          !.cache_hits = st.cache_hits],
                    st.served)

enrich_batch(w, points) ==
    IF Len(points) > MaxBatchPoints
    THEN GeoOutcome(w, GeoHTTPException(400, "Maximum 100 points per batch request"), 0)
    ELSE enrich_batch_after(batch_loop(BatchState(w, FALSE, <<>>, 0, 0), points, 1), points)

\* EnrichBatchRequest: max_length=100 and every point a valid EnrichRequest
ValidEnrichBatchRequest(points) ==
    /\ Len(points) <= MaxBatchPoints
    /\ \A k \in 1..Len(points) : ValidEnrichRequest(points[k])

(***************************************************************************)
(* map_match.py: /map_match and the Valhalla service                       *)
(***************************************************************************)

\* what the POST to Valhalla gives: no connection, an answer with a status
\* and a JSON body, or an answer whose body is no JSON
ValhallaConnectError == [kind |-> "connect_error", status_code |-> 0, data |-> JNull]
ValhallaAnswer(status_code, data) ==
    [kind |-> "answer", status_code |-> status_code, data |-> data]
ValhallaNotJson(status_code) ==
    [kind |-> "not_json", status_code |-> status_code, data |-> JNull]
NoValhallaCall == [kind |-> "", status_code |-> 0, data |-> JNull]

\* x in data, for a str x
Contains(data, x) ==
    IF data.kind = "dict" THEN Ret(HasKey(data, x))
    ELSE IF data.kind = "list"
        THEN Ret(\E k \in 1..Len(data.items) : data.items[k] = JStr(x))
    ELSE IF data.kind = "str"
        THEN Ret(\E i \in 1..(Len(data.str) + 1) : IsPrefixAt(data.str, x, i))
    ELSE Raise("TypeError")

IsNum(j) == j.kind = "int"
IsOptionalNum(j) == j.kind \in {"int", "null"}
IsOptionalStr(j) == j.kind \in {"str", "null"}

\* MatchedPoint(lat=.., lon=.., edge_id=.., distance_from_input_m=..)
MatchedPoint(lat, lon, edge_id, distance) ==
    IF IsNum(lat) /\ IsNum(lon) /\ IsNum(edge_id) /\ IsNum(distance)
    THEN Ret(<<[lat |-> lat.num, lon |-> lon.num, edge_id |-> edge_id.num,
                distance_from_input_m |-> distance.num]>>)
    ELSE Raise("ValidationError")

\* one round of the loop over data["matched_points"]; i counts from 0
matched_point_of(mp, i, coordinates) ==
    IF mp.kind # "dict" THEN Raise("AttributeError")
    ELSE IF DictGet(mp, <<"t", "y", "p", "e">>, JNull) # JStr(<<"m", "a", "t", "c", "h", "e", "d">>) THEN Ret(<<>>)
    ELSE IF i >= Len(coordinates) THEN Raise("IndexError")
    ELSE MatchedPoint(DictGet(mp, <<"l", "a", "t">>, JInt(coordinates[i + 1].lat)),
                      DictGet(mp, <<"l", "o", "n">>, JInt(coordinates[i + 1].lon)),
                      DictGet(mp, <<"e", "d", "g", "e", "_", "i", "n", "d", "e", "x">>, JInt(0)),
                      DictGet(mp, <<"d", "i", "s", "t", "a", "n", "c", "e", "_", "f", "r", "o", "m", "_", "t", "r", "a", "c", "e", "_", "p", "o", "i", "n", "t">>, JInt(0)))

RECURSIVE matched_points_loop(_, _, _)
matched_points_loop(items, i, coordinates) ==
    IF i >= Len(items) THEN Ret(<<>>)
    ELSE Then(matched_point_of(items[i + 1], i, coordinates),
              matched_points_loop(items, i + 1, coordinates))

\* the matched points, from "matched_points" in data on
matched_points_of(present, data, coordinates) ==
    IF ~present.ok THEN present
    ELSE IF ~present.val THEN Ret(<<>>)
    ELSE IF data.kind # "dict" THEN Raise("TypeError")
    ELSE IF DictGet(data, <<"m", "a", "t", "c", "h", "e", "d", "_", "p", "o", "i", "n", "t", "s">>, JNull).kind \in {"int", "null"}
        THEN Raise("TypeError")
    ELSE matched_points_loop(elements_of(DictGet(data, <<"m", "a", "t", "c", "h", "e", "d", "_", "p", "o", "i", "n", "t", "s">>, JNull)), 0,
                             coordinates)

\* bool(j)
JTruthy(j) ==
    IF j.kind = "int" THEN j.num # 0
    ELSE IF j.kind = "str" THEN j.str # <<>>
    ELSE IF j.kind = "list" THEN j.items # <<>>
    ELSE IF j.kind = "dict" THEN j.keys # <<>>
    ELSE FALSE

\* edge.get("names", [None])[0] if edge.get("names") else None
road_name_of(names) ==
    IF ~JTruthy(names) THEN Ret(JNull)
    ELSE IF names.kind = "list" THEN Ret(names.items[1])
    ELSE IF names.kind = "str" THEN Ret(JStr(<<names.str[1]>>))
    ELSE IF names.kind = "dict" THEN Raise("KeyError")
    ELSE Raise("TypeError")

\* RoadEdge(...) on the values read from edge
RoadEdge(id, way_id, road_name, road_class, length, speed_limit, begin_heading, end_heading) ==
    IF ~road_name.ok THEN road_name
    ELSE IF length.kind # "int" THEN Raise("TypeError")
    ELSE IF IsNum(id) /\ IsOptionalNum(way_id) /\ IsOptionalStr(road_name.val)
            /\ IsOptionalStr(road_class) /\ IsOptionalNum(speed_limit)
            /\ IsNum(begin_heading) /\ IsNum(end_heading)
    THEN Ret(<<[id |-> id.num, osm_way_id |-> way_id, road_name |-> road_name.val,
                road_class |-> road_class, length_m |-> length.num * 1000,
                speed_limit_kmh |-> speed_limit, begin_heading |-> begin_heading.num,
                end_heading |-> end_heading.num]>>)
    ELSE Raise("ValidationError")

edge_of(edge) ==
    IF edge.kind # "dict" THEN Raise("AttributeError")
    ELSE RoadEdge(DictGet(edge, <<"i", "d">>, JInt(0)), DictGet(edge, <<"w", "a", "y", "_", "i", "d">>, JNull),
                  road_name_of(DictGet(edge, <<"n", "a", "m", "e", "s">>, JNull)),
                  DictGet(edge, <<"r", "o", "a", "d", "_", "c", "l", "a", "s", "s">>, JNull), DictGet(edge, <<"l", "e", "n", "g", "t", "h">>, JInt(0)),
                  DictGet(edge, <<"s", "p", "e", "e", "d", "_", "l", "i", "m", "i", "t">>, JNull),
                  DictGet(edge, <<"b", "e", "g", "i", "n", "_", "h", "e", "a", "d", "i", "n", "g">>, JInt(0)),
                  DictGet(edge, <<"e", "n", "d", "_", "h", "e", "a", "d", "i", "n", "g">>, JInt(0)))

RECURSIVE edges_loop(_, _)
edges_loop(items, i) ==
    IF i > Len(items) THEN Ret(<<>>)
    ELSE Then(edge_of(items[i]), edges_loop(items, i + 1))

\* the edges, from "edges" in data on
edges_of(present, data) ==
    IF ~present.ok THEN present
    ELSE IF ~present.val THEN Ret(<<>>)
    ELSE IF data.kind # "dict" THEN Raise("TypeError")
    ELSE IF DictGet(data, <<"e", "d", "g", "e", "s">>, JNull).kind \in {"int", "null"} THEN Raise("TypeError")
    ELSE edges_loop(elements_of(DictGet(data, <<"e", "d", "g", "e", "s">>, JNull)), 1)

\* route=data.get("shape", {}) in MapMatchResponse(...)
route_of(data) ==
    IF data.kind # "dict" THEN Raise("AttributeError")
    ELSE IF DictGet(data, <<"s", "h", "a", "p", "e">>, JDict(<<>>, <<>>)).kind # "dict"
        THEN Raise("ValidationError")
    ELSE Ret(DictGet(data, <<"s", "h", "a", "p", "e">>, JDict(<<>>, <<>>)))

\* result, from the three parts of it
result_of_parts(matched_points, edges, route) ==
    IF ~matched_points.ok THEN matched_points
    ELSE IF ~edges.ok THEN edges
    ELSE IF ~route.ok THEN route
    ELSE Ret(MapMatchResponse(matched_points.val, edges.val, route.val))

\* lines 81-112: the MapMatchResponse built out of the body of a 200 answer
parse_valhalla(data, coordinates) ==
    result_of_parts(matched_points_of(Contains(data, <<"m", "a", "t", "c", "h", "e", "d", "_", "p", "o", "i", "n", "t", "s">>), data, coordinates),
                    edges_of(Contains(data, <<"e", "d", "g", "e", "s">>), data),
                    route_of(data))

\* TimestampedCoordinates, as map_match reads it: lat, lon and the
\* timestamp, None or its isoformat()
Coordinate(lat, lon, time) == [lat |-> lat, lon |-> lon, time |-> time]

\* str() of one dict of coordinates
coordinate_str(c) ==
    <<"{", "'", "l", "a", "t", "'", ":", " ">> \o float_repr(c.lat) \o <<",", " ", "'", "l", "o", "n", "'", ":", " ">> \o float_repr(c.lon) \o <<",", " ", "'", "t", "i", "m", "e", "'", ":", " ">>
        \o (IF c.time.some THEN <<"'">> \o c.time.v \o <<"'">> ELSE <<"N", "o", "n", "e">>) \o <<"}">>

KeyPrefixLen == 100
\* every coordinate_str has more than 33 characters: the first 100 of the
\* list lie within its first three elements and what follows them
CoordinatesInPrefix == 3

\* str(coordinates)[:100]
coordinates_str_prefix(coordinates) ==
    Take(<<"[">> \o Join([k \in 1..Min({Len(coordinates), CoordinatesInPrefix}) |->
                        coordinate_str(coordinates[k])], <<",", " ">>)
             \o (IF Len(coordinates) > CoordinatesInPrefix THEN <<",", " ">> ELSE <<"]">>),
         KeyPrefixLen)

\* str(hash(s)): hash is taken to have no collision on the strings that
\* occur, and its value is written as the string it is the hash of
py_hash(s) == <<"h", "a", "s", "h", "(">> \o s \o <<")">>

\* f"mapmatch:{hash(str(coordinates)[:100])}"
mapmatch_cache_key(coordinates) == <<"m", "a", "p", "m", "a", "t", "c", "h", ":">> \o py_hash(coordinates_str_prefix(coordinates))

\* the outcome of match_to_road_network: Redis afterwards, the response or
\* the exception, whether it came out of the cache, the answer of Valhalla
\* if it was called
Matched(w, resp, from_cache, valhalla) ==
    [w |-> w, raised |-> FALSE, response |-> resp, from_cache |-> from_cache,
     valhalla |-> valhalla]
MatchRaised(w, valhalla) ==
    [w |-> w, raised |-> TRUE, response |-> EmptyMapMatchResponse, from_cache |-> FALSE,
     valhalla |-> valhalla]

\* match_to_road_network from cache.set on
match_after_set(s, result, valhalla) ==
    IF s.raised THEN MatchRaised(s.w, valhalla) ELSE Matched(s.w, result, FALSE, valhalla)

\* match_to_road_network from the parsed body on
match_after_parse(w, result, cache_key, valhalla) ==
    IF ~result.ok THEN MatchRaised(w, valhalla)
    ELSE match_after_set(cache_set(w, cache_key, DumpedMapMatch(result.val)),
                         result.val, valhalla)

\* a degraded answer goes into the cache like a parsed one
match_after_post_caching(w, coordinates, cache_key, valhalla) ==
    IF valhalla.kind = "answer" /\ valhalla.status_code = 200
    THEN match_after_parse(w, parse_valhalla(valhalla.data, coordinates), cache_key, valhalla)
    ELSE match_after_parse(w, Ret(EmptyMapMatchResponse), cache_key, valhalla)

\* match_to_road_network from the POST on: the try block and what follows
match_after_post(w, coordinates, cache_key, valhalla) ==
    IF valhalla.kind = "answer" /\ valhalla.status_code = 200
    THEN match_after_parse(w, parse_valhalla(valhalla.data, coordinates), cache_key, valhalla)
    ELSE Matched(w, EmptyMapMatchResponse, FALSE, valhalla)

\* match_to_road_network from cache.get on
match_after_get(g, coordinates, cache_key, valhalla) ==
    IF g.raised THEN MatchRaised(g.w, NoValhallaCall)
    ELSE IF g.val.some THEN Matched(g.w, g.val.v.mapmatch, TRUE, NoValhallaCall)
    ELSE match_after_post(g.w, coordinates, cache_key, valhalla)

match_keyed(w, coordinates, cache_key, valhalla) ==
    match_after_get(cache_get(w, cache_key), coordinates, cache_key, valhalla)

\* valhalla is what the service answers if it is asked
match_to_road_network(w, coordinates, valhalla) ==
    match_keyed(w, coordinates, mapmatch_cache_key(coordinates), valhalla)

MinCoordinates == 2
MaxCoordinates == 1000
Costings == {"auto", "pedestrian", "bicycle", "bus"}

\* what map_match gave: Redis afterwards, the response, whether it came out
\* of the cache, the answer of Valhalla if it was called
MapMatchOutcome(w, resp, served, valhalla) ==
    [w |-> w, response |-> resp, served |-> served, valhalla |-> valhalla]

\* map_match from match_to_road_network on
map_match_after(r) ==
    IF r.raised
    THEN MapMatchOutcome(r.w, GeoHTTPException(500, "Internal Server Error"), 0, r.valhalla)
    ELSE MapMatchOutcome(r.w,
                         [NoGeoResponse EXCEPT !.status = 200, !.mapmatch = r.response],
                         IF r.from_cache THEN 1 ELSE 0, r.valhalla)

\* without the two checks of the length
map_match_unchecked(w, coordinates, valhalla) ==
    map_match_after(match_to_road_network(w, coordinates, valhalla))

map_match(w, coordinates, valhalla) ==
    IF Len(coordinates) < MinCoordinates
    THEN MapMatchOutcome(w, GeoHTTPException(400,
                                "At least 2 coordinates required for map matching"),
                         0, NoValhallaCall)
    ELSE IF Len(coordinates) > MaxCoordinates
    THEN MapMatchOutcome(w, GeoHTTPException(400, "Maximum 1000 coordinates per request"),
                         0, NoValhallaCall)
    ELSE map_match_after(match_to_road_network(w, coordinates, valhalla))

\* MapMatchRequest: max_length=1000, the range of every coordinate, costing
ValidMapMatchRequest(coordinates, costing) ==
    /\ Len(coordinates) <= MaxCoordinates
    /\ costing \in Costings
    /\ \A k \in 1..Len(coordinates) : ValidEnrichRequest(coordinates[k])

(***************************************************************************)
(* health.py (reference and backend) and the connection checks             *)
(***************************************************************************)

\* check_database_connection and check_redis_connection: True, or False on
\* every exception
check_database_connection(db_reachable) == db_reachable
check_redis_connection(redis_reachable) == redis_reachable

NoHealthResponse ==
    [status |-> "", database |-> "", redis |-> "", valhalla |-> ""]
Connection(connected) == IF connected THEN "connected" ELSE "disconnected"

\* reference/api/app/api/health.py, from the two checks on
health_check(db_connected, redis_connected) ==
    [status |-> IF db_connected /\ redis_connected THEN "healthy" ELSE "degraded",
     database |-> Connection(db_connected), redis |-> Connection(redis_connected),
     valhalla |-> "pending"]

\* backend/services/api/app/api/health.py: no check is made
backend_health_check ==
    [status |-> "healthy", database |-> "pending", redis |-> "pending",
     valhalla |-> "pending"]

(***************************************************************************)
(* The geo routes behind request validation, and the requests              *)
(***************************************************************************)

\* POST /enrich: the body is validated as an EnrichRequest, then enrich runs
post_enrich(w, point) ==
    IF ValidEnrichRequest(point) THEN enrich(w, point)
    ELSE GeoOutcome(w, GeoValidationError, 0)

\* POST /enrich_batch
post_enrich_batch(w, points) ==
    IF ValidEnrichBatchRequest(points) THEN enrich_batch(w, points)
    ELSE GeoOutcome(w, GeoValidationError, 0)

\* POST /map_match
post_map_match(w, coordinates, costing, valhalla) ==
    IF ValidMapMatchRequest(coordinates, costing) THEN map_match(w, coordinates, valhalla)
    ELSE MapMatchOutcome(w, GeoValidationError, 0, NoValhallaCall)

\* a request to a geo route: its points or coordinates, the costing of a
\* map match, and what Redis and Valhalla will do while it is handled
GeoRequest(route, points, costing, ups, valhalla) ==
    [route |-> route, points |-> points, costing |-> costing, ups |-> ups,
     others |-> <<>>, valhalla |-> valhalla]
NoGeoRequest == GeoRequest("", <<>>, "", <<>>, NoValhallaCall)

HealthRequest(service, db_reachable, redis_reachable) ==
    [service |-> service, db_reachable |-> db_reachable,
     redis_reachable |-> redis_reachable]
NoHealthRequest == HealthRequest("", FALSE, FALSE)

\* a call of a Cache method: the method, its arguments, and what it gave
CacheCall(op, key, value, raised, val) ==
    [op |-> op, key |-> key, value |-> value, raised |-> raised, val |-> val]
NoCacheCall == CacheCall("", <<>>, NoValue.v, FALSE, NoValue)
\* the result of a method that gives a bool, in the shape of one of get
BoolResult(r) == [r EXCEPT !.val = [some |-> r.val, v |-> NoValue.v]]

\* one of the four methods of Cache
cache_call_of(w, op, key, value) ==
    IF op = "get" THEN cache_get(w, key)
    ELSE IF op = "set" THEN BoolResult(cache_set(w, key, value))
    ELSE IF op = "delete" THEN BoolResult(cache_delete(w, key))
    ELSE BoolResult(cache_exists(w, key))

\* no geo traffic, an empty Redis and no pool yet
GeoIdle ==
    /\ redis_store = NoEntries
    /\ redis_pool = NoPool
    /\ geo_request = NoGeoRequest
    /\ geo_response = NoGeoResponse
    /\ cache_log = <<>>
    /\ valhalla_call = NoValhallaCall
    /\ from_cache_count = 0
    /\ degraded_keys = {}
    /\ populated_by = {}
    /\ health_request = NoHealthRequest
    /\ health_response = NoHealthResponse
    /\ cache_call = NoCacheCall

(***************************************************************************)
(* The database session of get_db_session() (database.py) and the Redis    *)
(* pool between get_redis() and close_redis() (cache.py, main.py)          *)
(***************************************************************************)

\* how an awaited call or the body of the with statement ends: it
\* returns, raises an Exception, or raises a BaseException that is no
\* Exception (asyncio.CancelledError when the request is cancelled)
Returns == "returns"
RaisesException == "Exception"
RaisesCancelled == "CancelledError"

\* what propagates out of get_db_session
NoException == ""
BodyError == "BodyError"
CommitError == "CommitError"
RollbackError == "RollbackError"
CloseError == "CloseError"
CancelledError == "CancelledError"

\* except Exception: catches every exception but a BaseException
CaughtByExceptException(exc) == exc \notin {NoException, CancelledError}

\* a method call on the session and how it ended
SessionOp(op, how) == [op |-> op, how |-> how]

\* a session of get_db_session: where the generator is, how the body
\* ended, the calls made on the session in order, the exception that is
\* propagating, and the exception the caller got
DbSession(pc, body, ops, pending, raised) ==
    [pc |-> pc, body |-> body, ops |-> ops, pending |-> pending, raised |-> raised]
NoDbSession == DbSession("idle", "", <<>>, NoException, NoException)
\* the requests that hold a session at the same time
MaxSessions == 2

\* a caller of a Cache method: where it is, the client get_redis() gave
\* it, whether close had been started on the client when it got it, and
\* when it sent its command on it
RedisClient(pc, client, got_closing, used_closing) ==
    [pc |-> pc, client |-> client, got_closing |-> got_closing,
     used_closing |-> used_closing]
NoRedisClient == RedisClient("idle", NoPool, FALSE, FALSE)
\* the requests that call a Cache method at the same time
MaxClients == 2

\* close_redis(): where it is, the pool it closes, the pools made so far
\* (a number: the pools are numbered as they are made), the pools on
\* which close() has been called and those on which it has returned
RedisClose(pc, closing, made, started, closed) ==
    [pc |-> pc, closing |-> closing, made |-> made, started |-> started,
     closed |-> closed]

LifeIdle ==
    /\ db_sessions = [s \in 1..MaxSessions |-> NoDbSession]
    /\ redis_clients = [c \in 1..MaxClients |-> NoRedisClient]
    /\ redis_close = RedisClose("idle", NoPool, 0, {}, {})

(***************************************************************************)
(* Inputs                                                                  *)
(***************************************************************************)

\* the longest chapter or segment list of a request
MaxItems == 2
\* the most colon-separated fields of a time-code argument
MaxParts == 4

SeqsUpTo(S, n) == UNION {[1..k -> S] : k \in 0..n}

ChapterInputs ==
    { Chapter(<<"0", "0", ":", "0", "0">>, <<"I", "n", "t", "r", "o">>, None),
      Chapter(<<"0", "5", ":", "0", "0">>, <<"M", "a", "i", "n">>, Some(<<"A", "r", "r", "i", "v", "e">>)),
      Chapter(<<"0", "1", ":", "0", "2", ":", "0", "3">>, <<"B">>, Some(<<>>)),
      Chapter(<<"5", ":", "3">>, <<"C">>, None),
      Chapter(<<"9", "0">>, <<"D">>, None),
      Chapter(<<"a", "b", ":", "c", "d">>, <<"E">>, None) }

SegmentInputs ==
    { ScriptSegment(<<"0", "0", ":", "3", "0">>, <<"H", "e", "l", "l", "o", " ", "w", "o", "r", "l", "d">>),
      ScriptSegment(<<"0", "0", ":", "0", "0">>, <<"W", "E", "B", "V", "T", "T">>),
      ScriptSegment(<<"0", "0", ":", "5", "9", ":", "5", "8">>, <<"M", "r", ".", " ", "S", "m", "i", "t", "h", " ", "a", " ", "b", " ", "c">>),
      ScriptSegment(<<"5", ":", "3">>, <<>>),
      ScriptSegment(<<"a", "b", "c">>, <<"x">>),
      ScriptSegment(<<"1", ":", "2", ":", "3", ":", "4">>, <<" ", " ", "y", " ", " ", "z", " ">>) }

ChapterFormatInputs == ChapterFormats \cup {"xml"}
ScriptFormatInputs == ScriptFormats \cup {"xml"}
ValidWpmInputs == {100, 150, 250}
WpmInputs == ValidWpmInputs \cup {0, 99, 251}

ExportChaptersRequests ==
    { [endpoint |-> "/export/chapters", items |-> chapters, format |-> format,
       reading_speed_wpm |-> 0] :
        chapters \in SeqsUpTo(ChapterInputs, MaxItems), format \in ChapterFormatInputs }

ScriptRequest(segments, format, wpm) ==
    [endpoint |-> "/export/script", items |-> segments, format |-> format,
     reading_speed_wpm |-> wpm]

\* every list with every valid selector and speed; the invalid selectors and
\* speeds with the lists of at most one segment
ExportScriptRequests ==
    { ScriptRequest(segments, format, wpm) :
        segments \in SeqsUpTo(SegmentInputs, MaxItems),
        format \in ScriptFormats, wpm \in ValidWpmInputs }
    \cup
    { ScriptRequest(segments, format, wpm) :
        segments \in SeqsUpTo(SegmentInputs, 1),
        format \in ScriptFormatInputs, wpm \in WpmInputs }

TimeFields == {<<>>, <<"7">>, <<"0", "5">>, <<"5", "9">>, <<"x">>}
TimeFieldLists == SeqsUpTo(TimeFields, MaxParts) \ {<<>>}

NotCalled == [ok |-> FALSE, val |-> 0, exc |-> "NotCalled"]

(***************************************************************************)
(* The export service: one request at a time, from arrival to the          *)
(* response; the handlers keep no state between requests.                  *)
(***************************************************************************)

TimeIdle ==
    /\ tc_fields = <<>>
    /\ tc_arg = <<>>
    /\ tc_result = NotCalled
    /\ tc_formatted = <<>>
    /\ tc_reparsed = NotCalled

\* no /narrate traffic, and no credential configured
NarrateIdle ==
    /\ GEMINI_API_KEY = NoKey
    /\ gemini_model = NoModel
    /\ models_built = 0
    /\ generate_content_calls = 0
    /\ last_prompt = NoPrompt
    /\ last_reply = NoReply
    /\ narrate_request = NoNarrateRequest
    /\ narrate_response = NoNarrateResponse
    /\ status_response = NoStatus

ExportIdle ==
    /\ request = NoRequest
    /\ response = NoResponse
    /\ called = {}

Init ==
    /\ ExportIdle
    /\ GeoIdle
    /\ NoCallers
    /\ LifeIdle
    /\ TimeIdle
    /\ NarrateIdle

\* the handler has run on req: what it answered and what it ran
Handled(req, out) ==
    /\ request' = req
    /\ response' = out.response
    /\ called' = out.called

PostExportChapters ==
    /\ request.endpoint = ""
    /\ \E req \in ExportChaptersRequests :
        Handled(req, IF ValidExportChaptersRequest(req) THEN export_chapters(req)
                     ELSE Ran(ValidationError, {}))
    /\ UNCHANGED <<life_vars, callers, geo_vars, time_vars, narrate_vars>>

PostExportScript ==
    /\ request.endpoint = ""
    /\ \E req \in ExportScriptRequests :
        Handled(req, IF ValidExportScriptRequest(req) THEN export_script(req)
                     ELSE Ran(ValidationError, {}))
    /\ UNCHANGED <<life_vars, callers, geo_vars, time_vars, narrate_vars>>

\* the response is sent and the service waits for the next request
SendResponse ==
    /\ request.endpoint # ""
    /\ request' = NoRequest
    /\ response' = NoResponse
    /\ called' = {}
    /\ UNCHANGED <<life_vars, callers, geo_vars, time_vars, narrate_vars>>

Next == PostExportChapters \/ PostExportScript \/ SendResponse

Spec == Init /\ [][Next]_vars

(***************************************************************************)
(* time_to_seconds as a function: the argument is drawn from the           *)
(* colon-joined lists of fields, and the call returns or raises.           *)
(***************************************************************************)

InitTime ==
    /\ ExportIdle
    /\ GeoIdle
    /\ NoCallers
    /\ LifeIdle
    /\ NarrateIdle
    /\ tc_fields \in TimeFieldLists
    /\ tc_arg = Join(tc_fields, <<":">>)
    /\ tc_result = NotCalled
    /\ tc_formatted = <<>>
    /\ tc_reparsed = NotCalled

CallTimeToSeconds ==
    /\ tc_result = NotCalled
    /\ tc_result' = time_to_seconds(tc_arg)
    /\ UNCHANGED <<life_vars, callers, geo_vars, export_vars, tc_fields, tc_arg, tc_formatted, tc_reparsed, narrate_vars>>

NextTime == CallTimeToSeconds

SpecTime == InitTime /\ [][NextTime]_vars

(***************************************************************************)
(* The narration service: one request at a time; _gemini_model lives as    *)
(* long as the process, and the settings are read once at start-up.        *)
(***************************************************************************)

MaxEvents == 2
MaxCalls == 2

TruthEvent(timestamp, pois, location) ==
    [timestamp |-> timestamp, pois |-> pois, location |-> location]

EventInputs ==
    { TruthEvent(<<"1", "0", ":", "0", "0", ":", "0", "0">>, <<>>, [lat |-> 10, lon |-> 20]),
      TruthEvent(<<"2", "3", ":", "5", "9", ":", "5", "9">>, <<<<"L", "a", "k", "e">>, <<"I", "n", "n">>, <<"B", "a", "r">>, <<"Z", "o", "o">>>>, [lat |-> -5, lon |-> 0]) }

TranscriptInputs == {None, Some(<<>>), Some(<<"w", "e", " ", "d", "r", "i", "v", "e">>)}

NarrateRequests ==
    { NarrateRequest(events, transcript) :
        events \in SeqsUpTo(EventInputs, MaxEvents), transcript \in TranscriptInputs }
    \cup {InvalidNarrateRequest}

\* the replies wrapped as the handler expects them and otherwise
Fenced(doc) ==
    { doc, <<Backtick, Backtick, Backtick, "j", "s", "o", "n", "\n">> \o doc \o <<"\n", Backtick, Backtick, Backtick>>, <<Backtick, Backtick, Backtick>> \o doc \o <<Backtick, Backtick, Backtick>>, <<" ", "\n">> \o doc \o <<"\n">>,
      <<Backtick, Backtick, Backtick, "j", "s", "o", "n", "\n">> \o doc, doc \o <<Backtick, Backtick, Backtick>>, <<Backtick, Backtick, Backtick, "j", "s", "o", "n">> \o doc \o <<Backtick, Backtick, Backtick, "\n">> }

ReplyTexts ==
    UNION { Fenced(doc[1]) : doc \in JsonDocuments }
    \cup Fenced(<<"o", "o", "p", "s">>) \cup Fenced(<<>>) \cup {<<Backtick, Backtick, Backtick, "j", "s", "o", "n">>, <<"{", "\"", "c", "h", "a", "p", "t", "e", "r", "s", "\"", ":", "[", "}">>}

UpstreamErrors == {<<"q", "u", "o", "t", "a", " ", "e", "x", "c", "e", "e", "d", "e", "d">>, <<>>}

\* what model.generate_content(...).text gives: a text, or an exception
ModelReplies == { Ret(text) : text \in ReplyTexts } \cup { Raise(e) : e \in UpstreamErrors }

InitNarrate ==
    /\ ExportIdle
    /\ GeoIdle
    /\ NoCallers
    /\ LifeIdle
    /\ TimeIdle
    /\ GEMINI_API_KEY \in {NoKey, <<"k", "e", "y">>}
    /\ gemini_model = NoModel
    /\ models_built = 0
    /\ generate_content_calls = 0
    /\ last_prompt = NoPrompt
    /\ last_reply = NoReply
    /\ narrate_request = NoNarrateRequest
    /\ narrate_response = NoNarrateResponse
    /\ status_response = NoStatus

\* get_gemini_model() has run and left model in _gemini_model
GotModel(model) ==
    /\ gemini_model' = model
    /\ models_built' = IF model # gemini_model THEN models_built + 1 ELSE models_built

\* generate_narration has run with model and given out
Narrated(model, out) ==
    /\ GotModel(model)
    /\ narrate_response' = out.response
    /\ generate_content_calls' = generate_content_calls + out.invoked
    /\ last_prompt' = out.prompt
    /\ last_reply' = out.reply

NarrateWith(req, model, reply) ==
    /\ narrate_request' = req
    /\ IF req.valid THEN Narrated(model, generate_narration(req, model, reply))
       ELSE /\ narrate_response' = NarrateValidationError
            /\ UNCHANGED <<gemini_model, models_built, generate_content_calls, last_prompt,
                           last_reply>>

PostNarrate ==
    /\ narrate_request.endpoint = ""
    /\ generate_content_calls < MaxCalls
    /\ \E req \in NarrateRequests, reply \in ModelReplies :
        NarrateWith(req, get_gemini_model(gemini_model, GEMINI_API_KEY, models_built),
                    reply)
    /\ UNCHANGED <<life_vars, callers, geo_vars, export_vars, time_vars, GEMINI_API_KEY, status_response>>

GetNarrateStatus ==
    /\ narrate_request.endpoint = ""
    /\ narrate_request' = StatusRequest
    /\ GotModel(get_gemini_model(gemini_model, GEMINI_API_KEY, models_built))
    /\ status_response' = narration_status(gemini_model')
    /\ UNCHANGED <<life_vars, callers, geo_vars, export_vars, time_vars, GEMINI_API_KEY, generate_content_calls,
                   last_prompt, last_reply, narrate_response>>

\* the response is sent and the service waits for the next request
SendNarrateResponse ==
    /\ narrate_request.endpoint # ""
    /\ narrate_request' = NoNarrateRequest
    /\ narrate_response' = NoNarrateResponse
    /\ status_response' = NoStatus
    /\ last_prompt' = NoPrompt
    /\ last_reply' = NoReply
    /\ UNCHANGED <<life_vars, callers, geo_vars, export_vars, time_vars, GEMINI_API_KEY, gemini_model, models_built,
                   generate_content_calls>>

NextNarrate == PostNarrate \/ GetNarrateStatus \/ SendNarrateResponse

SpecNarrate == InitNarrate /\ [][NextNarrate]_vars

(***************************************************************************)
(* get_gemini_model() called by several requests at the same time.  The    *)
(* event loop runs one call at a time; here the callers may be switched    *)
(* between any two statements, which includes every schedule it has.       *)
(***************************************************************************)

InitRace ==
    /\ ExportIdle
    /\ GeoIdle
    /\ TimeIdle
    /\ NoCallers
    /\ LifeIdle
    /\ GEMINI_API_KEY \in {NoKey, <<"k", "e", "y">>}
    /\ gemini_model = NoModel
    /\ models_built = 0
    /\ generate_content_calls = 0
    /\ last_prompt = NoPrompt
    /\ last_reply = NoReply
    /\ narrate_request = NoNarrateRequest
    /\ narrate_response = NoNarrateResponse
    /\ status_response = NoStatus

RaceFrame ==
    UNCHANGED <<life_vars, geo_vars, export_vars, time_vars, GEMINI_API_KEY, generate_content_calls,
                last_prompt, last_reply, narrate_request, narrate_response,
                status_response>>

\* a request calls get_gemini_model()
CallGetModel ==
    /\ \E c \in 1..MaxCallers :
        /\ callers[c].pc = "idle"
        /\ callers' = [callers EXCEPT ![c].pc = "test"]
    /\ UNCHANGED <<gemini_model, models_built>>
    /\ RaceFrame

\* line 31: if _gemini_model is None and settings.GEMINI_API_KEY
TestHandle ==
    /\ \E c \in 1..MaxCallers :
        /\ callers[c].pc = "test"
        /\ callers' = [callers EXCEPT
                          ![c].seen = gemini_model,
                          ![c].pc = IF needs_model(gemini_model, GEMINI_API_KEY)
                                    THEN "configure" ELSE "return"]
    /\ UNCHANGED <<gemini_model, models_built>>
    /\ RaceFrame

\* line 32: genai.configure(api_key=...)
ConfigureGenai ==
    /\ \E c \in 1..MaxCallers :
        /\ callers[c].pc = "configure"
        /\ callers' = [callers EXCEPT ![c].pc = "construct"]
    /\ UNCHANGED <<gemini_model, models_built>>
    /\ RaceFrame

\* line 33, right-hand side: a new client is built
ConstructModel ==
    /\ \E c \in 1..MaxCallers :
        /\ callers[c].pc = "construct"
        /\ callers' = [callers EXCEPT ![c].made = models_built + 1, ![c].pc = "assign"]
    /\ models_built' = models_built + 1
    /\ UNCHANGED gemini_model
    /\ RaceFrame

\* line 33: the client is stored in _gemini_model
AssignHandle ==
    /\ \E c \in 1..MaxCallers :
        /\ callers[c].pc = "assign"
        /\ gemini_model' = callers[c].made
        /\ callers' = [callers EXCEPT ![c].pc = "return"]
    /\ UNCHANGED models_built
    /\ RaceFrame

\* line 36: return _gemini_model
ReturnHandle ==
    /\ \E c \in 1..MaxCallers :
        /\ callers[c].pc = "return"
        /\ callers' = [callers EXCEPT
                          ![c].result = returned_handle(callers[c].seen, gemini_model),
                          ![c].pc = "done"]
    /\ UNCHANGED <<gemini_model, models_built>>
    /\ RaceFrame

NextRace ==
    \/ CallGetModel
    \/ TestHandle
    \/ ConfigureGenai
    \/ ConstructModel
    \/ AssignHandle
    \/ ReturnHandle

SpecRace == InitRace /\ [][NextRace]_vars

(***************************************************************************)
(* The geo service: one request at a time over a Redis server that keeps   *)
(* its entries between requests, may be down at any command, and drops     *)
(* an entry when its time to live is over.                                 *)
(***************************************************************************)

\* two points that round to the same 4 decimals, one that does not, and
\* one out of range
EnrichPoints ==
    { EnrichRequest(3777490, -12241940), EnrichRequest(3777494, -12241940),
      EnrichRequest(3777496, -12241940), EnrichRequest(9100000, 0) }

Repeat(x, n) == [k \in 1..n |-> x]

\* batches: empty, one point, a repeated key, two keys, an invalid point,
\* and the longest batch and one point more
EnrichBatches ==
    { <<>>,
      <<EnrichRequest(3777490, -12241940)>>,
      <<EnrichRequest(3777490, -12241940), EnrichRequest(3777494, -12241940)>>,
      <<EnrichRequest(3777496, -12241940), EnrichRequest(3777490, -12241940)>>,
      <<EnrichRequest(3777490, -12241940), EnrichRequest(9100000, 0)>>,
      Repeat(EnrichRequest(3777490, -12241940), MaxBatchPoints),
      Repeat(EnrichRequest(3777490, -12241940), MaxBatchPoints + 1) }

MaxDownPattern == 2
\* more commands than a request makes
ManyCommands == 3 * MaxBatchPoints
\* Redis during a request: up throughout, up or down at each of the first
\* commands until it is down for the last time and up afterwards, or down
\* throughout
Availabilities ==
    {<<>>, Repeat(FALSE, ManyCommands)}
        \cup UNION { { ups \in [1..n -> BOOLEAN] : ~ups[n] } : n \in 1..MaxDownPattern }

\* between two commands of a request: nothing, the entry of a point
\* expires, another request for the point sets its entry
Quiet == Meanwhile({}, {})
Expiry(point) == Meanwhile({NamespacedKey(enrich_cache_key(point))}, {})
Populating(point) ==
    Meanwhile({}, {[key |-> NamespacedKey(enrich_cache_key(point)),
                    value |-> DumpedEnrich(EnrichResponse(point.lat, point.lon))]})
\* the commands of a request before which others act
MaxConcurrent == 2
\* what others do during a batch: nothing, or, while Redis is up, the
\* entry of the first point expires or is set before one of the first
\* commands
Concurrent(points, ups) ==
    IF ups # <<>> \/ points = <<>> \/ Len(points) > MaxBatchPoints
           \/ ~ValidEnrichBatchRequest(points)
    THEN {<<>>}
    ELSE {<<>>} \cup
         UNION { { [k \in 1..n |-> IF k = n THEN last ELSE Quiet] :
                       last \in {Expiry(points[1]), Populating(points[1])} } :
                 n \in 1..MaxConcurrent }

Here == Coordinate(3777490, -12241940, None)
Near == Coordinate(3777494, -12241940, None)
Timed == Coordinate(3777496, -12241940, Some(<<"2", "0", "2", "4", "-", "0", "5", "-", "0", "1", "T", "1", "0", ":", "0", "0", ":", "0", "0">>))

\* traces: too short, two that differ only after their first two points,
\* an invalid latitude, the longest and one more
CoordinateLists ==
    { <<>>, <<Here>>, <<Here, Near>>, <<Here, Near, Timed>>,
      <<Here, Coordinate(9100000, 0, None)>>,
      Repeat(Here, MaxCoordinates), Repeat(Here, MaxCoordinates + 1) }

\* the bodies of the requests to /map_match: every trace by car, and one
\* with a costing that is none of the four
MapMatchRequests ==
    { <<coordinates, "auto">> : coordinates \in CoordinateLists }
        \cup {<<<<Here, Near>>, "car">>}

\* bodies of a 200 answer: nothing matched, a match on one edge, and a
\* body that is no object
ValhallaBodies ==
    { JDict(<<>>, <<>>),
      JDict(<<<<"m", "a", "t", "c", "h", "e", "d", "_", "p", "o", "i", "n", "t", "s">>, <<"e", "d", "g", "e", "s">>, <<"s", "h", "a", "p", "e">>>>,
            << JList(<< JDict(<<<<"t", "y", "p", "e">>, <<"e", "d", "g", "e", "_", "i", "n", "d", "e", "x">>, <<"d", "i", "s", "t", "a", "n", "c", "e", "_", "f", "r", "o", "m", "_", "t", "r", "a", "c", "e", "_", "p", "o", "i", "n", "t">>>>,
                              <<JStr(<<"m", "a", "t", "c", "h", "e", "d">>), JInt(0), JInt(3)>>),
                        JDict(<<<<"t", "y", "p", "e">>>>, <<JStr(<<"u", "n", "m", "a", "t", "c", "h", "e", "d">>)>>) >>),
               JList(<< JDict(<<<<"i", "d">>, <<"n", "a", "m", "e", "s">>, <<"l", "e", "n", "g", "t", "h">>>>,
                              <<JInt(7), JList(<<JStr(<<"M", "a", "i", "n", " ", "S", "t">>)>>), JInt(2)>>) >>),
               JDict(<<<<"t", "y", "p", "e">>>>, <<JStr(<<"L", "i", "n", "e", "S", "t", "r", "i", "n", "g">>)>>) >>),
      JList(<<>>) }

ValhallaOutcomes ==
    {ValhallaConnectError, ValhallaAnswer(503, JNull), ValhallaNotJson(200)}
        \cup { ValhallaAnswer(200, body) : body \in ValhallaBodies }

InitGeo ==
    /\ ExportIdle
    /\ TimeIdle
    /\ NarrateIdle
    /\ GeoIdle
    /\ NoCallers
    /\ LifeIdle

GeoWaiting ==
    /\ geo_request = NoGeoRequest
    /\ health_request = NoHealthRequest
    /\ cache_call = NoCacheCall

\* Valhalla could not be reached or answered with another status than 200
Degraded(valhalla) ==
    \/ valhalla.kind = "connect_error"
    \/ valhalla.kind \in {"answer", "not_json"} /\ valhalla.status_code # 200

\* the keys a set command of the log has written
KeysSet(log) == { log[k].key : k \in { i \in 1..Len(log) : log[i].op = "set" /\ log[i].ok } }

\* the traces that wrote the entries, after a request for points has
\* written the keys
Populated(by, keys, points) ==
    { p \in by : p.key \notin keys } \cup { [key |-> k, points |-> points] : k \in keys }

\* an enrich route has run on req
EnrichedWith(req, out) ==
    /\ geo_request' = req
    /\ geo_response' = out.response
    /\ redis_store' = out.w.store
    /\ redis_pool' = out.w.pool
    /\ cache_log' = out.w.log
    /\ from_cache_count' = out.served
    /\ UNCHANGED <<valhalla_call, degraded_keys, populated_by, health_request,
                   health_response, cache_call>>

\* /map_match has run on req
MatchedWith(req, out) ==
    /\ geo_request' = req
    /\ geo_response' = out.response
    /\ redis_store' = out.w.store
    /\ redis_pool' = out.w.pool
    /\ cache_log' = out.w.log
    /\ from_cache_count' = out.served
    /\ valhalla_call' = out.valhalla
    /\ populated_by' = Populated(populated_by, KeysSet(out.w.log), req.points)
    /\ UNCHANGED <<degraded_keys, health_request, health_response, cache_call>>

PostEnrich ==
    /\ GeoWaiting
    /\ \E point \in EnrichPoints, ups \in Availabilities :
        EnrichedWith(GeoRequest("/enrich", <<point>>, "", ups, NoValhallaCall),
                     post_enrich(World(redis_store, redis_pool, ups, <<>>), point))
    /\ UNCHANGED <<life_vars, callers, export_vars, time_vars, narrate_vars>>

PostEnrichBatch ==
    /\ GeoWaiting
    /\ \E points \in EnrichBatches, ups \in Availabilities :
        \E others \in Concurrent(points, ups) :
            EnrichedWith([GeoRequest("/enrich_batch", points, "", ups, NoValhallaCall)
                              EXCEPT !.others = others],
                         post_enrich_batch(Among(World(redis_store, redis_pool, ups, <<>>),
                                                 others), points))
    /\ UNCHANGED <<life_vars, callers, export_vars, time_vars, narrate_vars>>

PostMapMatch ==
    /\ GeoWaiting
    /\ \E body \in MapMatchRequests, ups \in Availabilities, valhalla \in ValhallaOutcomes :
        MatchedWith(GeoRequest("/map_match", body[1], body[2], ups, valhalla),
                    post_map_match(World(redis_store, redis_pool, ups, <<>>),
                                   body[1], body[2], valhalla))
    /\ UNCHANGED <<life_vars, callers, export_vars, time_vars, narrate_vars>>

\* GET /health of the reference API
GetHealth ==
    /\ GeoWaiting
    /\ \E db_reachable \in BOOLEAN, redis_reachable \in BOOLEAN :
        /\ health_request' = HealthRequest("reference", db_reachable, redis_reachable)
        /\ health_response' = health_check(check_database_connection(db_reachable),
                                           check_redis_connection(redis_reachable))
    /\ UNCHANGED <<redis_store, redis_pool, geo_request, geo_response, cache_log,
                   valhalla_call, from_cache_count, degraded_keys, populated_by,
                   cache_call>>
    /\ UNCHANGED <<life_vars, callers, export_vars, time_vars, narrate_vars>>

\* GET /health of the backend API
GetBackendHealth ==
    /\ GeoWaiting
    /\ \E db_reachable \in BOOLEAN, redis_reachable \in BOOLEAN :
        health_request' = HealthRequest("backend", db_reachable, redis_reachable)
    /\ health_response' = backend_health_check
    /\ UNCHANGED <<redis_store, redis_pool, geo_request, geo_response, cache_log,
                   valhalla_call, from_cache_count, degraded_keys, populated_by,
                   cache_call>>
    /\ UNCHANGED <<life_vars, callers, export_vars, time_vars, narrate_vars>>

CacheOps == {"get", "set", "delete", "exists"}

\* a method of Cache has run
CalledCache(op, key, value, out) ==
    /\ cache_call' = CacheCall(op, key, value, out.raised, out.val)
    /\ redis_store' = out.w.store
    /\ redis_pool' = out.w.pool
    /\ cache_log' = out.w.log

\* a caller of the Cache service calls one of its methods
CallCache ==
    /\ GeoWaiting
    /\ \E op \in CacheOps, point \in EnrichPoints, up \in BOOLEAN :
        /\ ValidEnrichRequest(point)
        /\ CalledCache(op, enrich_cache_key(point),
                       DumpedEnrich(EnrichResponse(point.lat, point.lon)),
                       cache_call_of(World(redis_store, redis_pool, <<up>>, <<>>), op,
                                     enrich_cache_key(point),
                                     DumpedEnrich(EnrichResponse(point.lat, point.lon))))
    /\ UNCHANGED <<geo_request, geo_response, valhalla_call, from_cache_count,
                   degraded_keys, populated_by, health_request, health_response>>
    /\ UNCHANGED <<life_vars, callers, export_vars, time_vars, narrate_vars>>

\* the time to live of an entry is over
ExpireEntry ==
    /\ GeoWaiting
    /\ \E e \in redis_store :
        /\ redis_store' = redis_store \ {e}
        /\ populated_by' = { p \in populated_by : NamespacedKey(p.key) # e.key }
    /\ UNCHANGED <<redis_pool, geo_request, geo_response, cache_log, valhalla_call,
                   from_cache_count, degraded_keys, health_request, health_response,
                   cache_call>>
    /\ UNCHANGED <<life_vars, callers, export_vars, time_vars, narrate_vars>>

\* the request was a map match that Valhalla did not serve, for a key
\* that had no entry when it came
DegradedWithoutEntry(key) ==
    /\ geo_request.route = "/map_match"
    /\ Degraded(valhalla_call)
    /\ ~Stored(redis_store, NamespacedKey(key)) \/ key \in KeysSet(cache_log)

\* the response is sent and the service waits for the next request
SendGeoResponse ==
    /\ ~GeoWaiting
    /\ degraded_keys' =
          (degraded_keys \ KeysSet(cache_log))
              \cup (IF DegradedWithoutEntry(mapmatch_cache_key(geo_request.points))
                    THEN {mapmatch_cache_key(geo_request.points)} ELSE {})
    /\ geo_request' = NoGeoRequest
    /\ geo_response' = NoGeoResponse
    /\ cache_log' = <<>>
    /\ valhalla_call' = NoValhallaCall
    /\ from_cache_count' = 0
    /\ health_request' = NoHealthRequest
    /\ health_response' = NoHealthResponse
    /\ cache_call' = NoCacheCall
    /\ UNCHANGED <<redis_store, redis_pool, populated_by>>
    /\ UNCHANGED <<life_vars, callers, export_vars, time_vars, narrate_vars>>

NextGeo ==
    \/ PostEnrich
    \/ PostEnrichBatch
    \/ PostMapMatch
    \/ GetHealth
    \/ GetBackendHealth
    \/ CallCache
    \/ ExpireEntry
    \/ SendGeoResponse

SpecGeo == InitGeo /\ [][NextGeo]_vars

(***************************************************************************)
(* The time code of a cue timestamp: time_to_seconds, then the HH:MM:SS    *)
(* formatting of format_vtt on its result, then time_to_seconds again.     *)
(***************************************************************************)

RoundTripFields == {<<"0">>, <<"7">>, <<"5", "9">>, <<"9", "0">>, <<"1", "0", "0">>, <<"-", "1">>, <<"x">>}
RoundTripFieldLists == SeqsUpTo(RoundTripFields, MaxParts) \ {<<>>}

\* the time code of a timestamp: what precedes its milliseconds
time_code_of(timestamp) == SubSeq(timestamp, 1, Len(timestamp) - 4)

InitRoundTrip ==
    /\ ExportIdle
    /\ GeoIdle
    /\ NoCallers
    /\ LifeIdle
    /\ NarrateIdle
    /\ tc_fields \in RoundTripFieldLists
    /\ tc_arg = Join(tc_fields, <<":">>)
    /\ tc_result = NotCalled
    /\ tc_formatted = <<>>
    /\ tc_reparsed = NotCalled

\* end_time of a cue that starts at the parsed time and has no words
FormatSeconds ==
    /\ tc_result.ok
    /\ tc_formatted = <<>>
    /\ tc_formatted' = time_code_of(vtt_end_time(tc_result.val * 1000))
    /\ UNCHANGED <<life_vars, callers, geo_vars, export_vars, tc_fields, tc_arg, tc_result, tc_reparsed, narrate_vars>>

ParseFormatted ==
    /\ tc_formatted # <<>>
    /\ tc_reparsed = NotCalled
    /\ tc_reparsed' = time_to_seconds(tc_formatted)
    /\ UNCHANGED <<life_vars, callers, geo_vars, export_vars, tc_fields, tc_arg, tc_result, tc_formatted, narrate_vars>>

NextRoundTrip == CallTimeToSeconds \/ FormatSeconds \/ ParseFormatted

SpecRoundTrip == InitRoundTrip /\ [][NextRoundTrip]_vars

(***************************************************************************)
(* get_db_session() (database.py 39-50), statement by statement, for       *)
(* requests that each hold a session of their own                          *)
(***************************************************************************)

InitDb ==
    /\ ExportIdle
    /\ TimeIdle
    /\ NarrateIdle
    /\ GeoIdle
    /\ NoCallers
    /\ LifeIdle

DbFrame ==
    UNCHANGED <<export_vars, time_vars, narrate_vars, geo_vars, callers,
                redis_clients, redis_close>>

Outcomes == {Returns, RaisesException, RaisesCancelled}

\* the exception an awaited call raises that ends in the way how
exception_of(how, exc) ==
    IF how = Returns THEN NoException
    ELSE IF how = RaisesCancelled THEN CancelledError ELSE exc

\* where the generator goes when exc leaves the try block: to the except
\* clause if except Exception catches it, to the finally clause otherwise
after_try(exc) == IF CaughtByExceptException(exc) THEN "rollback" ELSE "close"

\* session = async_session_factory(); yield session
OpenSession ==
    /\ \E s \in 1..MaxSessions :
        /\ db_sessions[s].pc = "idle"
        /\ db_sessions' = [db_sessions EXCEPT ![s].pc = "yielded"]
    /\ DbFrame

\* the body of the with statement ends: it completes, or what it raises
\* is thrown into the generator at the yield
BodyEnds ==
    /\ \E s \in 1..MaxSessions, how \in Outcomes :
        /\ db_sessions[s].pc = "yielded"
        /\ db_sessions' = [db_sessions EXCEPT
              ![s].body = how,
              ![s].pending = exception_of(how, BodyError),
              ![s].pc = IF how = Returns THEN "commit"
                        ELSE after_try(exception_of(how, BodyError))]
    /\ DbFrame

\* await session.commit()
Commit ==
    /\ \E s \in 1..MaxSessions, how \in Outcomes :
        /\ db_sessions[s].pc = "commit"
        /\ db_sessions' = [db_sessions EXCEPT
              ![s].ops = Append(@, SessionOp("commit", how)),
              ![s].pending = exception_of(how, CommitError),
              ![s].pc = after_try(exception_of(how, CommitError))]
    /\ DbFrame

\* except Exception: await session.rollback(); raise
Rollback ==
    /\ \E s \in 1..MaxSessions, how \in Outcomes :
        /\ db_sessions[s].pc = "rollback"
        /\ db_sessions' = [db_sessions EXCEPT
              ![s].ops = Append(@, SessionOp("rollback", how)),
              ![s].pending = IF how = Returns THEN @
                             ELSE exception_of(how, RollbackError),
              ![s].pc = "close"]
    /\ DbFrame

\* finally: await session.close(); then what was propagating, if
\* anything, reaches the caller
Close ==
    /\ \E s \in 1..MaxSessions, how \in Outcomes :
        /\ db_sessions[s].pc = "close"
        /\ db_sessions' = [db_sessions EXCEPT
              ![s].ops = Append(@, SessionOp("close", how)),
              ![s].raised = IF how = Returns THEN db_sessions[s].pending
                            ELSE exception_of(how, CloseError),
              ![s].pc = "left"]
    /\ DbFrame

NextDb ==
    \/ OpenSession
    \/ BodyEnds
    \/ Commit
    \/ Rollback
    \/ Close

SpecDb == InitDb /\ [][NextDb]_vars

(***************************************************************************)
(* get_redis() and close_redis() (cache.py 18-50) with the Cache methods   *)
(* that call get_redis() (cache.py 64-112) and the shutdown of lifespan    *)
(* (main.py 37-39).  A coroutine runs until it awaits input or output, so  *)
(* the steps are the stretches between these awaits.                       *)
(***************************************************************************)

InitRedis ==
    /\ ExportIdle
    /\ TimeIdle
    /\ NarrateIdle
    /\ GeoIdle
    /\ NoCallers
    /\ LifeIdle

RedisFrame ==
    UNCHANGED <<export_vars, time_vars, narrate_vars, callers, db_sessions,
                redis_store, geo_request, geo_response, cache_log, valhalla_call,
                from_cache_count, degraded_keys, populated_by, health_request,
                health_response, cache_call>>

\* redis.from_url(...): a new pool, numbered after those made before
from_url(made) == made + 1

\* get_redis() when made pools were made before: the pool kept in
\* _redis_pool, a new one if there is none
get_redis_of(pool, made) == IF pool = NoPool THEN from_url(made) ELSE pool

\* a Cache method: client = await get_redis(), and the command is sent
\* on the client
CacheMethodCalled ==
    /\ \E c \in 1..MaxClients :
        /\ redis_clients[c].pc = "idle"
        /\ redis_pool' = get_redis_of(redis_pool, redis_close.made)
        /\ redis_close' = [redis_close EXCEPT
              !.made = IF redis_pool = NoPool THEN from_url(@) ELSE @]
        /\ redis_clients' = [redis_clients EXCEPT
              ![c].pc = "awaiting",
              ![c].client = get_redis_of(redis_pool, redis_close.made),
              ![c].got_closing =
                  @ \/ get_redis_of(redis_pool, redis_close.made) \in redis_close.started]
    /\ RedisFrame

\* the command of a Cache method is answered on the client, or fails;
\* the method returns
CacheMethodReturns ==
    /\ \E c \in 1..MaxClients :
        /\ redis_clients[c].pc = "awaiting"
        /\ redis_clients' = [redis_clients EXCEPT
              ![c].pc = "idle",
              ![c].used_closing = @ \/ redis_clients[c].client \in redis_close.started]
    /\ UNCHANGED <<redis_pool, redis_close>>
    /\ RedisFrame

\* lifespan shuts down: close_redis() finds no pool and returns, or
\* calls close() on the pool and awaits it
CloseRedisCalled ==
    /\ redis_close.pc = "idle"
    /\ redis_close' = [redis_close EXCEPT
          !.pc = IF redis_pool # NoPool THEN "closing" ELSE "done",
          !.closing = redis_pool,
          !.started = IF redis_pool # NoPool THEN @ \cup {redis_pool} ELSE @]
    /\ UNCHANGED <<redis_pool, redis_clients>>
    /\ RedisFrame

\* close() returns: _redis_pool = None
CloseRedisReturns ==
    /\ redis_close.pc = "closing"
    /\ redis_close' = [redis_close EXCEPT
          !.pc = "done", !.closed = @ \cup {redis_close.closing}]
    /\ redis_pool' = NoPool
    /\ UNCHANGED redis_clients
    /\ RedisFrame

NextRedis ==
    \/ CacheMethodCalled
    \/ CacheMethodReturns
    \/ CloseRedisCalled
    \/ CloseRedisReturns

SpecRedis == InitRedis /\ [][NextRedis]_vars

(***************************************************************************)
(* Properties of the export service.  What a property expects of an        *)
(* output is written out here on its own, from the time code's fields and  *)
(* the narration's words, and is compared with what the handler answered.  *)
(***************************************************************************)

ToChapters == request.endpoint = "/export/chapters"
ToScript == request.endpoint = "/export/script"
\* the request passed validation, so the handler ran
Validated ==
    \/ ToChapters /\ request.format \in ChapterFormats
    \/ /\ ToScript
       /\ request.format \in ScriptFormats
       /\ request.reading_speed_wpm \in MinWpm..MaxWpm
Accepted == Validated /\ response.status = 200

AllDigits(s) == \A i \in 1..Len(s) : IsDigit(s[i])
IsNumber(s) == s # <<>> /\ AllDigits(s)
\* MM:SS or HH:MM:SS, every field a non-negative decimal integer
WellFormedTimeCode(time_code) ==
    LET fields == Split(time_code, ":")
    IN  Len(fields) \in {2, 3} /\ \A k \in 1..Len(fields) : IsNumber(fields[k])
\* the seconds a well-formed time code denotes
SecondsOf(time_code) ==
    LET fields == Split(time_code, ":")
    IN  IF Len(fields) = 2 THEN DigitsVal(fields[1]) * 60 + DigitsVal(fields[2])
        ELSE DigitsVal(fields[1]) * 3600 + DigitsVal(fields[2]) * 60
                 + DigitsVal(fields[3])
\* a timestamp HH:MM:SS<frac>mmm (hours of two digits or more)
IsTimestamp(s, frac) ==
    LET p == Split(s, ":")
    IN  /\ Len(p) = 3
        /\ Len(p[1]) >= 2 /\ AllDigits(p[1])
        /\ Len(p[2]) = 2 /\ AllDigits(p[2])
        /\ Len(p[3]) = 6 /\ p[3][3] = frac
        /\ AllDigits(SubSeq(p[3], 1, 2)) /\ AllDigits(SubSeq(p[3], 4, 6))
\* the milliseconds a timestamp denotes
TimestampMs(s) ==
    LET p == Split(s, ":")
    IN  ((DigitsVal(p[1]) * 60 + DigitsVal(p[2])) * 60
            + DigitsVal(SubSeq(p[3], 1, 2))) * 1000 + DigitsVal(SubSeq(p[3], 4, 6))
\* the number of maximal runs of non-whitespace characters
WordCount(s) ==
    Cardinality({i \in 1..Len(s) :
        s[i] \notin Whitespace /\ (i = 1 \/ s[i - 1] \in Whitespace)})
RECURSIVE TotalWordCount(_)
TotalWordCount(segments) ==
    IF segments = <<>> THEN 0
    ELSE WordCount(Head(segments).narration) + TotalWordCount(Tail(segments))

Arrow == <<" ", "-", "-", ">", " ">>
HasArrow(line) == \E j \in 1..Len(line) : IsPrefixAt(line, Arrow, j)
ArrowAt(line) == Min({j \in 1..Len(line) : IsPrefixAt(line, Arrow, j)})
BeforeArrow(line) == SubSeq(line, 1, ArrowAt(line) - 1)
AfterArrow(line) == SubSeq(line, ArrowAt(line) + Len(Arrow), Len(line))
\* the time range lines of an SRT or VTT output, in order
RangeLines(content) == SelectSeq(Split(content, "\n"), HasArrow)

\* C1: a validated POST /export/chapters or /export/script whose list is
\* empty is answered 400, whatever its format selector; no formatter ran
\* and the answer carries no content, file name or estimate.
C1_EmptyListIsRejected ==
    (Validated /\ request.items = <<>>) =>
        /\ response.status = 400
        /\ called = {}
        /\ response.content = <<>>
        /\ response.filename = ""
        /\ ~response.estimated_duration_seconds.some

C1_Witness ==
    /\ ToScript /\ request.format = "vtt" /\ request.reading_speed_wpm = 150
    /\ request.items = <<>>
    /\ response.status = 400

C1_WitnessChapters ==
    /\ ToChapters /\ request.format = "json" /\ request.items = <<>>
    /\ response.status = 400

Items == request.items
NumItems == Len(request.items)

\* C3: in the SRT chapter export every chapter whose time code is well
\* formed has the time range line `start --> end`, both timestamps of the
\* form HH:MM:SS,mmm, start denoting the chapter's time code and end
\* denoting start plus 30 seconds.
C3_SrtChapterRange ==
    (Accepted /\ ToChapters /\ request.format = "srt") =>
        LET ranges == RangeLines(response.content)
        IN  /\ Len(ranges) = NumItems
            /\ \A i \in 1..NumItems :
                WellFormedTimeCode(Items[i].time_code) =>
                    LET start == BeforeArrow(ranges[i])
                        end == AfterArrow(ranges[i])
                    IN  /\ IsTimestamp(start, ",")
                        /\ TimestampMs(start) = SecondsOf(Items[i].time_code) * 1000
                        /\ IsTimestamp(end, ",")
                        /\ TimestampMs(end) = TimestampMs(start) + 30 * 1000

\* C4: in the VTT script export every cue whose time code is well formed
\* ends at its start plus word_count(narration) / 2.5 seconds, and never
\* before its start.
C4_VttCueEnd ==
    (Accepted /\ ToScript /\ request.format = "vtt") =>
        LET ranges == RangeLines(response.content)
        IN  /\ Len(ranges) = NumItems
            /\ \A i \in 1..NumItems :
                WellFormedTimeCode(Items[i].time_code) =>
                    LET end == AfterArrow(ranges[i])
                        start_ms == SecondsOf(Items[i].time_code) * 1000
                    IN  /\ IsTimestamp(end, ".")
                        /\ TimestampMs(end) >= start_ms
                        /\ (TimestampMs(end) - start_ms) * 5
                               = WordCount(Items[i].narration) * 1000 * 2

\* the text without its leading WEBVTT header
WithoutLeadingHeader(text) ==
    IF IsPrefixAt(text, <<"W", "E", "B", "V", "T", "T", "\n", "\n">>, 1)
    THEN SubSeq(text, Len(<<"W", "E", "B", "V", "T", "T", "\n", "\n">>) + 1, Len(text)) ELSE text
PeriodsToCommas(text) ==
    [i \in 1..Len(text) |-> IF text[i] = "." THEN "," ELSE text[i]]

\* C5: the SRT script export is the VTT export of the same segments with
\* the leading WEBVTT header removed and every '.' replaced by ',' (so a
\* period of the narration comes out as a comma).
C5_SrtIsVttConverted ==
    (Accepted /\ ToScript /\ request.format = "srt") =>
        response.content
            = PeriodsToCommas(WithoutLeadingHeader(format_vtt(Items).val))

\* C6: an accepted /export/script request is answered with
\* estimated_duration_seconds = (total word count / reading_speed_wpm) * 60,
\* the speed within 100..250 and never 0, the estimate not negative, and 0
\* when no segment has a word; 2 words at 150 wpm give 0.8.
C6_EstimatedDuration ==
    /\ response.detail # "ZeroDivisionError"
    /\ (Accepted /\ ToScript) =>
        LET est == response.estimated_duration_seconds
            words == TotalWordCount(Items)
        IN  /\ est.some
            /\ request.reading_speed_wpm \in 100..250
            /\ est.den > 0
            /\ est.num * request.reading_speed_wpm = words * 60 * est.den
            /\ est.num >= 0
            /\ (words = 0 => est.num = 0)
            /\ (Items = <<ScriptSegment(<<"0", "0", ":", "3", "0">>, <<"H", "e", "l", "l", "o", " ", "w", "o", "r", "l", "d">>)>>
                    /\ request.reading_speed_wpm = 150)
                   => est.num * 10 = 8 * est.den

C6_Witness ==
    /\ Accepted /\ ToScript
    /\ Items = <<ScriptSegment(<<"0", "0", ":", "3", "0">>, <<"H", "e", "l", "l", "o", " ", "w", "o", "r", "l", "d">>)>>
    /\ request.reading_speed_wpm = 150
    /\ response.estimated_duration_seconds.num * 10
           = 8 * response.estimated_duration_seconds.den

C6_WitnessNoWords ==
    /\ Accepted /\ ToScript
    /\ Items = <<ScriptSegment(<<"5", ":", "3">>, <<>>)>>
    /\ response.estimated_duration_seconds.num = 0

\* C7: the content and the file name of an accepted /export/script request
\* are those of the same request at every other valid reading speed: the
\* speed decides nothing but the estimate.
C7_SpeedOnlyChangesEstimate ==
    (Accepted /\ ToScript) =>
        \A wpm \in ValidWpmInputs :
            LET other == export_script(ScriptRequest(Items, request.format, wpm)).response
            IN  /\ other.status = 200
                /\ other.content = response.content
                /\ other.filename = response.filename
                /\ other.format = response.format

C7_Witness ==
    /\ Accepted /\ ToScript /\ request.format = "vtt"
    /\ request.reading_speed_wpm = 250
    /\ Items = <<ScriptSegment(<<"0", "0", ":", "5", "9", ":", "5", "8">>, <<"M", "r", ".", " ", "S", "m", "i", "t", "h", " ", "a", " ", "b", " ", "c">>)>>
    /\ export_script(ScriptRequest(Items, "vtt", 100)).response.content
           = response.content
    /\ export_script(ScriptRequest(Items, "vtt", 100)).response
           .estimated_duration_seconds # response.estimated_duration_seconds

\* the lines a format puts before and after its entries
HeaderLines ==
    IF ToChapters THEN
        CASE request.format = "youtube" -> <<<<"C", "h", "a", "p", "t", "e", "r", "s", ":">>>>
          [] request.format = "markdown" -> <<<<"#", " ", "V", "i", "d", "e", "o", " ", "C", "h", "a", "p", "t", "e", "r", "s", "\n">>>>
          [] request.format = "json" -> <<<<"[">>>>
          [] OTHER -> <<>>
    ELSE
        CASE request.format = "vtt" -> <<<<"W", "E", "B", "V", "T", "T">>, <<>>>>
          [] request.format = "markdown" -> <<<<"#", " ", "N", "a", "r", "r", "a", "t", "i", "o", "n", " ", "S", "c", "r", "i", "p", "t", "\n">>>>
          [] OTHER -> <<>>
TrailerLines == IF ToChapters /\ request.format = "json" THEN <<<<"]">>>> ELSE <<>>

EachPeriodToComma(lines) == [k \in 1..Len(lines) |-> PeriodsToCommas(lines[k])]

\* the entry of the item at position i: its number where the format numbers,
\* its time code and its text
EntryLines(i) ==
    IF ToChapters THEN
        CASE request.format = "youtube" -> youtube_entry(Items[i])
          [] request.format = "markdown" -> markdown_entry(i, Items[i])
          [] request.format = "srt" -> srt_entry(i, Items[i]).val
          [] OTHER -> json_entry(Items[i], i = NumItems)
    ELSE
        CASE request.format = "teleprompter" -> teleprompter_entry(Items[i])
          [] request.format = "vtt" -> vtt_cue(i, Items[i], MsPerWord).val
          [] request.format = "srt" ->
                EachPeriodToComma(vtt_cue(i, Items[i], MsPerWord).val)
          [] OTHER -> script_markdown_entry(Items[i])

RECURSIVE EntriesFrom(_)
EntriesFrom(i) == IF i > NumItems THEN <<>> ELSE EntryLines(i) \o EntriesFrom(i + 1)

\* C8: every accepted export is its format's header followed by exactly one
\* entry per item, in the order of the request and numbered 1, 2, ... where
\* the format numbers them; nothing is dropped, repeated or re-sorted.
C8_OneEntryPerItemInOrder ==
    Accepted =>
        response.content = Join(HeaderLines \o EntriesFrom(1) \o TrailerLines, <<"\n">>)

\* C8 but for the SRT script export
C8_ExceptScriptSrt ==
    (Accepted /\ ~(ToScript /\ request.format = "srt")) =>
        response.content = Join(HeaderLines \o EntriesFrom(1) \o TrailerLines, <<"\n">>)

\* C10: a validated export request with a malformed time code in one of its
\* items is answered with a client error (4xx), whatever its format
\* selector: the code is not rendered, not read as zero, and the answer is
\* no server error.
C10_MalformedTimeCodeIsClientError ==
    (Validated /\ \E i \in 1..NumItems : ~WellFormedTimeCode(Items[i].time_code))
        => response.status \in 400..499

(***************************************************************************)
(* Properties of time_to_seconds                                           *)
(***************************************************************************)

Returned == tc_result.exc = ""
Raised == tc_result.exc \notin {"", "NotCalled"}

\* C9: time_to_seconds returns minutes*60+seconds for a two-part code and
\* hours*3600+minutes*60+seconds for a three-part code, and raises for every
\* argument with another number of colon-separated parts or with a part
\* that is no integer.
C9_TimeToSeconds ==
    (tc_result # NotCalled) =>
        IF Len(tc_fields) \in {2, 3} /\ \A k \in 1..Len(tc_fields) : IsNumber(tc_fields[k])
        THEN /\ Returned
             /\ Len(tc_fields) = 2 =>
                    tc_result.val = DigitsVal(tc_fields[1]) * 60 + DigitsVal(tc_fields[2])
             /\ Len(tc_fields) = 3 =>
                    tc_result.val = DigitsVal(tc_fields[1]) * 3600
                                        + DigitsVal(tc_fields[2]) * 60
                                        + DigitsVal(tc_fields[3])
        ELSE Raised

\* C9 but for the arguments of four parts or more, where the first three
\* parts decide and the others are never read
C9_UpToThreeParts ==
    (tc_result # NotCalled /\ Len(tc_fields) <= 3) => C9_TimeToSeconds

(***************************************************************************)
(* Properties of /narrate without a credential                             *)
(***************************************************************************)

NarrateHandled == narrate_request.endpoint = "/narrate" /\ narrate_request.valid

\* C2: with no credential configured, every /narrate request that the
\* handler receives, whatever its events and transcript and whatever was
\* requested before it, is answered with the same response: the two chapters
\* 00:00 'Journey Begins' and 05:00 'Main Destination', no script, and meta
\* with engine 'placeholder' and a reason; generate_content is never called
\* and no model client is ever built.
C2_PlaceholderWithoutCredential ==
    GEMINI_API_KEY = <<>> =>
        /\ generate_content_calls = 0
        /\ models_built = 0
        /\ gemini_model = 0
        /\ NarrateHandled =>
            /\ narrate_response.status = 200
            /\ narrate_response.chapters =
                 << [time_code |-> <<"0", "0", ":", "0", "0">>, title |-> <<"J", "o", "u", "r", "n", "e", "y", " ", "B", "e", "g", "i", "n", "s">>,
                     description |-> Some(<<"S", "t", "a", "r", "t", "i", "n", "g", " ", "o", "u", "r", " ", "a", "d", "v", "e", "n", "t", "u", "r", "e">>),
                     formatted |-> None],
                    [time_code |-> <<"0", "5", ":", "0", "0">>, title |-> <<"M", "a", "i", "n", " ", "D", "e", "s", "t", "i", "n", "a", "t", "i", "o", "n">>,
                     description |-> Some(<<"A", "r", "r", "i", "v", "i", "n", "g", " ", "a", "t", " ", "t", "h", "e", " ", "m", "a", "i", "n", " ", "l", "o", "c", "a", "t", "i", "o", "n">>),
                     formatted |-> None] >>
            /\ ~narrate_response.script.some
            /\ narrate_response.meta.engine = "placeholder"
            /\ narrate_response.meta.reason = Some(<<"G", "E", "M", "I", "N", "I", "_", "A", "P", "I", "_", "K", "E", "Y", " ", "n", "o", "t", " ", "c", "o", "n", "f", "i", "g", "u", "r", "e", "d">>)

\* a request with two events and a transcript was answered with no
\* credential configured
C2_Witness ==
    /\ GEMINI_API_KEY = <<>>
    /\ NarrateHandled
    /\ Len(narrate_request.events) = 2
    /\ Truthy(narrate_request.transcript)
    /\ narrate_response.status = 200

\* with a credential the same request is answered by the model
C2_WitnessConfigured ==
    /\ GEMINI_API_KEY # <<>>
    /\ NarrateHandled
    /\ narrate_response.status = 200
    /\ narrate_response.meta.engine = "gemini-2.0-flash"
    /\ Len(narrate_response.chapters) = 1
    /\ generate_content_calls = 2

(***************************************************************************)
(* Properties of the time-code round trip                                  *)
(***************************************************************************)

\* C11: for every time code of two or three parts that time_to_seconds
\* accepts, formatting the seconds as HH:MM:SS the way format_vtt formats a
\* cue's end and parsing that again gives the seconds of the first parse.
C11_RoundTrip ==
    (Len(tc_fields) \in {2, 3} /\ tc_result.ok /\ tc_reparsed # NotCalled) =>
        /\ tc_reparsed.ok
        /\ tc_reparsed.val = tc_result.val

\* a two-part code that is not in the form the formatter writes (90 minutes,
\* 59 seconds) went round
C11_Witness ==
    /\ tc_fields = <<<<"9", "0">>, <<"5", "9">>>>
    /\ tc_result.ok /\ tc_result.val = 5459
    /\ tc_formatted = <<"0", "1", ":", "3", "0", ":", "5", "9">>
    /\ tc_reparsed.ok

\* a three-part code with a negative field went round
C11_WitnessNegative ==
    /\ Len(tc_fields) = 3 /\ tc_fields[1] = <<"-", "1">>
    /\ tc_result.ok /\ tc_result.val < 0
    /\ tc_reparsed.ok

(***************************************************************************)
(* Properties of /narrate with a credential                                *)
(***************************************************************************)

Configured == GEMINI_API_KEY # <<>>
ParseFailedDetail == <<"F", "a", "i", "l", "e", "d", " ", "t", "o", " ", "p", "a", "r", "s", "e", " ", "A", "I", " ", "r", "e", "s", "p", "o", "n", "s", "e">>
GenerationFailedPrefix == <<"A", "I", " ", "g", "e", "n", "e", "r", "a", "t", "i", "o", "n", " ", "f", "a", "i", "l", "e", "d", ":", " ">>
\* the reply as json.loads receives it
AfterFenceStripping(text) == strip_fences(Strip(text))
IsValidJson(text) == \E doc \in JsonDocuments : doc[1] = Strip(text)
Succeeded ==
    /\ narrate_response.status = 200
    /\ narrate_response.detail = <<>>
    /\ narrate_response.meta.engine = "gemini-2.0-flash"
ParseFailed ==
    /\ narrate_response.status = 500
    /\ narrate_response.detail = ParseFailedDetail
GenerationFailed ==
    /\ narrate_response.status = 500
    /\ StartsWith(narrate_response.detail, GenerationFailedPrefix)

\* C12: with a credential configured every /narrate request the handler
\* receives ends in exactly one of: a 200 tagged gemini-2.0-flash; a 500
\* 'Failed to parse AI response', exactly when the model replied and the
\* reply after fence stripping is no JSON document; a 500 'AI generation
\* failed: <text>' for every other failure, <text> being the upstream error
\* text when the model call failed.
C12_ThreeOutcomes ==
    (Configured /\ NarrateHandled) =>
        /\ last_reply.called
        /\ Succeeded \/ ParseFailed \/ GenerationFailed
        /\ ~(Succeeded /\ ParseFailed) /\ ~(Succeeded /\ GenerationFailed)
        /\ ~(ParseFailed /\ GenerationFailed)
        /\ ParseFailed <=>
             (last_reply.ok /\ ~IsValidJson(AfterFenceStripping(last_reply.text)))
        /\ ~last_reply.ok =>
             narrate_response.detail = GenerationFailedPrefix \o last_reply.error

\* a fenced reply that is no JSON was answered 'Failed to parse AI response'
C12_Witness ==
    /\ Configured /\ NarrateHandled
    /\ last_reply.ok /\ last_reply.text = <<Backtick, Backtick, Backtick, "j", "s", "o", "n", "\n", "o", "o", "p", "s", "\n", Backtick, Backtick, Backtick>>
    /\ ParseFailed

\* the model call raised and its text is in the detail
C12_WitnessUpstream ==
    /\ Configured /\ NarrateHandled
    /\ ~last_reply.ok /\ last_reply.error = <<"q", "u", "o", "t", "a", " ", "e", "x", "c", "e", "e", "d", "e", "d">>
    /\ narrate_response.detail = <<"A", "I", " ", "g", "e", "n", "e", "r", "a", "t", "i", "o", "n", " ", "f", "a", "i", "l", "e", "d", ":", " ", "q", "u", "o", "t", "a", " ", "e", "x", "c", "e", "e", "d", "e", "d">>

\* a JSON reply of the wrong shape failed while the response was built
C12_WitnessBuild ==
    /\ Configured /\ NarrateHandled
    /\ last_reply.ok /\ last_reply.text = <<"[", "]">>
    /\ narrate_response.detail
         = <<"A", "I", " ", "g", "e", "n", "e", "r", "a", "t", "i", "o", "n", " ", "f", "a", "i", "l", "e", "d", ":", " ", "'", "l", "i", "s", "t", "'", " ", "o", "b", "j", "e", "c", "t", " ", "h", "a", "s", " ", "n", "o", " ", "a", "t", "t", "r", "i", "b", "u", "t", "e", " ", "'", "g", "e", "t", "'">>

C12_WitnessSuccess ==
    /\ Configured /\ NarrateHandled /\ Succeeded
    /\ Len(narrate_response.chapters) = 1
    /\ narrate_response.chapters[1].title = <<"A">>

(***************************************************************************)
(* Claims about the geo routes                                             *)
(***************************************************************************)

GeoHandled(route) == geo_request.route = route
ClientError(status) == status >= 400 /\ status <= 499

\* the request is one the limits exclude
OutOfLimits ==
    \/ GeoHandled("/enrich_batch") /\ Len(geo_request.points) > 100
    \/ GeoHandled("/map_match")
         /\ (Len(geo_request.points) < 2 \/ Len(geo_request.points) > 1000)

\* C13: an /enrich_batch request with more than 100 points and a /map_match
\* request with fewer than 2 or more than 1000 coordinates get a client
\* error, and handling them reads nothing from the cache, writes nothing
\* to it and makes no call to Valhalla.
C13_OutOfLimitsIsRejected ==
    OutOfLimits =>
        /\ ClientError(geo_response.status)
        /\ cache_log = <<>>
        /\ valhalla_call = NoValhallaCall

\* a batch of 101 points has been rejected
C13_Witness ==
    /\ GeoHandled("/enrich_batch")
    /\ Len(geo_request.points) = 101
    /\ ClientError(geo_response.status)

\* a trace of a single coordinate has been rejected by the handler
C13_WitnessShort ==
    /\ GeoHandled("/map_match")
    /\ Len(geo_request.points) = 1
    /\ geo_response.status = 400

\* a trace of 1001 coordinates has been rejected
C13_WitnessLong ==
    /\ GeoHandled("/map_match")
    /\ Len(geo_request.points) = 1001
    /\ ClientError(geo_response.status)

\* the longest batch and the longest trace are served, with cache traffic
C13_WitnessLongestBatch ==
    /\ GeoHandled("/enrich_batch")
    /\ Len(geo_request.points) = 100
    /\ geo_response.status = 200
    /\ cache_log # <<>>
C13_WitnessLongestTrace ==
    /\ GeoHandled("/map_match")
    /\ Len(geo_request.points) = 1000
    /\ geo_response.status = 200
    /\ valhalla_call # NoValhallaCall

\* some command of this request found Redis down, or every command did
CacheDown == \E i \in 1..Len(cache_log) : ~cache_log[i].ok
CacheDownThroughout == cache_log # <<>> /\ \A i \in 1..Len(cache_log) : ~cache_log[i].ok

\* the request passed validation and the checks of its handler
Admitted == geo_request.route # "" /\ ~ClientError(geo_response.status)

\* Valhalla answered 200 with a body the handler cannot read
UnreadableBody ==
    /\ valhalla_call.kind = "answer"
    /\ valhalla_call.status_code = 200
    /\ ~parse_valhalla(valhalla_call.data, geo_request.points).ok

\* what enrich_point computes for each point of the request
Computed == [k \in 1..Len(geo_request.points) |->
                EnrichResponse(geo_request.points[k].lat, geo_request.points[k].lon)]

\* a method of Cache does not raise, and gives None or False if it found
\* Redis down
CacheMethodsDoNotRaise ==
    cache_call.op # "" =>
        /\ ~cache_call.raised
        /\ CacheDown => ~cache_call.val.some

\* with Redis or Valhalla down, an enrich route answers 200 with the
\* results it computes for what it could not read
EnrichSurvivesCache ==
    /\ GeoHandled("/enrich") /\ Admitted /\ CacheDown =>
        /\ geo_response.status = 200
        /\ ~cache_log[1].ok => geo_response.enrich = Computed[1] /\ from_cache_count = 0
    /\ GeoHandled("/enrich_batch") /\ Admitted /\ CacheDown =>
        /\ geo_response.status = 200
        /\ Len(geo_response.results) = Len(geo_request.points)
        /\ CacheDownThroughout =>
              /\ geo_response.results = Computed
              /\ geo_response.cache_hits = 0
              /\ from_cache_count = 0

MapMatchSurvives ==
    GeoHandled("/map_match") /\ Admitted =>
        /\ CacheDown /\ ~UnreadableBody => geo_response.status = 200
        /\ ~cache_log[1].ok => valhalla_call # NoValhallaCall
        /\ Degraded(valhalla_call) =>
              /\ geo_response.status = 200
              /\ geo_response.mapmatch = MapMatchResponse(<<>>, <<>>, JDict(<<>>, <<>>))

\* C14: Redis or Valhalla being down never fails an /enrich, /enrich_batch
\* or /map_match request: get, set, delete and exists of Cache give their
\* miss or false value on an error and do not raise, the request goes on
\* as on a cache miss, and a map match that cannot connect or gets another
\* status than 200 gives a MapMatchResponse with no matched points, no
\* edges and an empty route.
C14_UnavailabilityNeverFails ==
    /\ CacheMethodsDoNotRaise
    /\ EnrichSurvivesCache
    /\ MapMatchSurvives

\* /enrich has answered 200 although its cache read failed
C14_Witness ==
    /\ GeoHandled("/enrich")
    /\ cache_log # <<>>
    /\ ~cache_log[1].ok
    /\ geo_response.status = 200

\* /map_match has answered the empty response: no connection, another status
C14_WitnessConnect ==
    /\ GeoHandled("/map_match")
    /\ valhalla_call = ValhallaConnectError
    /\ geo_response.status = 200
C14_WitnessStatus ==
    /\ GeoHandled("/map_match")
    /\ valhalla_call.status_code = 503
    /\ geo_response.status = 200

\* the longest batch has been served with Redis down throughout
C14_WitnessBatch ==
    /\ GeoHandled("/enrich_batch")
    /\ Len(geo_request.points) = 100
    /\ CacheDownThroughout
    /\ geo_response.status = 200

\* each method of Cache has been called with Redis down
C14_WitnessGet == cache_call.op = "get" /\ CacheDown
C14_WitnessSet == cache_call.op = "set" /\ CacheDown
C14_WitnessDelete == cache_call.op = "delete" /\ CacheDown
C14_WitnessExists == cache_call.op = "exists" /\ CacheDown
\* a map match failed on the body of a 200 answer
C14_WitnessUnreadable == GeoHandled("/map_match") /\ UnreadableBody /\ geo_response.status = 500

HealthHandled(service) == health_request.service = service
BothReachable == health_request.db_reachable /\ health_request.redis_reachable

\* what GET /health is to report for what the checks find
HealthReportsChecks ==
    /\ health_response.status = "healthy" <=> BothReachable
    /\ ~BothReachable => health_response.status = "degraded"
    /\ ~health_request.db_reachable => health_response.database = "disconnected"
    /\ ~health_request.redis_reachable => health_response.redis = "disconnected"

\* C15: GET /health does not raise and reports the status healthy exactly
\* when the database check and the cache check both succeed; if either
\* service cannot be reached it reports degraded and marks that service
\* disconnected.
C15_HealthReportsChecks ==
    health_request.service # "" => HealthReportsChecks

\* C15 for the health route of the reference API alone
C15_ReferenceHealth ==
    HealthHandled("reference") => HealthReportsChecks

\* the reference API has reported degraded with the database down; the
\* backend API has reported healthy with the database down
C15_WitnessReference ==
    /\ HealthHandled("reference")
    /\ ~health_request.db_reachable
    /\ health_response.status = "degraded"
C15_WitnessBackend ==
    /\ HealthHandled("backend")
    /\ ~health_request.db_reachable
    /\ health_response.status = "healthy"

\* the key of the trace of the /map_match request that has been handled
HandledKey == mapmatch_cache_key(geo_request.points)

\* C20: a degraded map match is never cached: when Valhalla cannot be
\* reached or answers another status than 200, match_to_road_network
\* returns the empty response and writes nothing to the cache, so that a
\* later request for the same trace, once Valhalla is back, calls Valhalla
\* again and is not served the empty result out of the cache.
C20_DegradedIsNotCached ==
    GeoHandled("/map_match") /\ Admitted =>
        /\ Degraded(valhalla_call) =>
              /\ geo_response.mapmatch = EmptyMapMatchResponse
              /\ \A i \in 1..Len(cache_log) : cache_log[i].op # "set"
        /\ HandledKey \in degraded_keys =>
              /\ valhalla_call # NoValhallaCall
              /\ from_cache_count = 0

\* after a degraded map match of a trace, the next one of the same trace
\* has called Valhalla, which answered 200, and its result is in the cache
C20_Witness ==
    /\ GeoHandled("/map_match")
    /\ HandledKey \in degraded_keys
    /\ valhalla_call.status_code = 200
    /\ geo_response.mapmatch.matched_points # <<>>
    /\ \E i \in 1..Len(cache_log) : cache_log[i].op = "set" /\ cache_log[i].ok

\* a degraded map match has been answered with Redis up
C20_WitnessDegraded ==
    /\ GeoHandled("/map_match")
    /\ Degraded(valhalla_call)
    /\ ~CacheDown
    /\ geo_response.status = 200

(***************************************************************************)
(* Claims about the model client of narrate.py                             *)
(***************************************************************************)

\* a request that calls get_gemini_model() has been handled
NeededModel ==
    \/ narrate_request.endpoint = "/narrate" /\ narrate_request.valid
    \/ narrate_request.endpoint = "/narrate/status"

\* the client is built at most once, by the first request that needs it,
\* and never without a credential; a request that needs it gets it
HandleBuiltOnce ==
    /\ models_built = (IF gemini_model = NoModel THEN 0 ELSE 1)
    /\ GEMINI_API_KEY = NoKey => gemini_model = NoModel
    /\ GEMINI_API_KEY # NoKey /\ NeededModel =>
        /\ gemini_model # NoModel
        /\ narrate_request.endpoint = "/narrate/status" => status_response.online_available
        /\ narrate_request.endpoint = "/narrate" =>
              narrate_response.meta.engine # "placeholder"

\* a handle that is not None stays what it is, and no step builds a second
\* client
HandleKept ==
    /\ gemini_model # NoModel => gemini_model' = gemini_model
    /\ models_built' = models_built \/ (models_built = 0 /\ gemini_model = NoModel)

\* C16: over any sequence of /narrate and /narrate/status requests, with a
\* credential the model client is built by the first request that needs it
\* and never again: once _gemini_model is not None it never changes and
\* never goes back to None, and every later request gets that handle;
\* without a credential no client is built and the handle stays None.
C16_InitialisedOnce == [](HandleBuiltOnce) /\ [][HandleKept]_vars

\* a second model call has been made with the client built once
C16_Witness ==
    /\ GEMINI_API_KEY # NoKey
    /\ NeededModel
    /\ generate_content_calls = 2
    /\ models_built = 1
    /\ gemini_model # NoModel

\* without a credential, requests were handled and no client was built
C16_WitnessNoCredential ==
    /\ GEMINI_API_KEY = NoKey
    /\ narrate_request.endpoint = "/narrate/status"
    /\ gemini_model = NoModel
    /\ models_built = 0

Done(c) == callers[c].pc = "done"
\* two handles hold clients that cannot be told apart by what they are
\* built from
Equivalent(h1, h2) ==
    /\ h1 # NoModel
    /\ h2 # NoModel
    /\ GenerativeModel(h1).model_name = GenerativeModel(h2).model_name

\* C17: when several requests call get_gemini_model() at the same time for
\* the first time with a credential configured, then under every
\* interleaving each caller gets a client, _gemini_model ends up holding a
\* client, no caller holds anything but a client equivalent to the one in
\* _gemini_model even if more than one was built, and _gemini_model is
\* not None once a caller has returned.
C17_ConcurrentFirstCalls ==
    GEMINI_API_KEY # NoKey =>
        \A c \in 1..MaxCallers :
            Done(c) =>
                /\ callers[c].result # NoModel
                /\ gemini_model # NoModel
                /\ Equivalent(callers[c].result, gemini_model)

\* every caller has returned, and more than one client was built
C17_Witness ==
    /\ GEMINI_API_KEY # NoKey
    /\ \A c \in 1..MaxCallers : Done(c)
    /\ models_built > 1

\* a caller holds another client than the one _gemini_model holds
C17_WitnessTwoClients ==
    /\ GEMINI_API_KEY # NoKey
    /\ \E c \in 1..MaxCallers : Done(c) /\ callers[c].result # gemini_model

\* every caller has returned and one client was built
C17_WitnessOneClient ==
    /\ GEMINI_API_KEY # NoKey
    /\ \A c \in 1..MaxCallers : Done(c)
    /\ models_built = 1

\* the model call of this request failed, or its reply was no JSON
CallFailed == last_reply.called /\ ~last_reply.ok
ReplyUnparseable ==
    /\ last_reply.called
    /\ last_reply.ok
    /\ ~json_loads(strip_fences(Strip(last_reply.text))).ok

\* this step is the handling of a /narrate request by generate_narration
NarrateStep ==
    /\ narrate_request.endpoint = ""
    /\ narrate_request'.endpoint = "/narrate"
    /\ narrate_request'.valid

\* generate_content is called once in the handling of a /narrate request
\* if there is a model, and in no other step
OneCallPerRequest ==
    generate_content_calls' - generate_content_calls =
        (IF NarrateStep /\ gemini_model' # NoModel THEN 1 ELSE 0)

\* a failed call and a reply that is no JSON are answered with an error
FailureIsReturned ==
    NarrateHandled /\ (CallFailed \/ ReplyUnparseable) => narrate_response.status = 500

\* C18: each /narrate request calls the generative model at most once,
\* exactly once when a model is configured and not at all otherwise; after
\* a failed call or an unparseable reply there is no second attempt and
\* the failure is returned to the caller.
C18_SingleAttempt == [](FailureIsReturned) /\ [][OneCallPerRequest]_vars

\* a failed call has been answered with a 500 after the one call made
C18_Witness ==
    /\ NarrateHandled
    /\ CallFailed
    /\ generate_content_calls = 1
    /\ narrate_response.status = 500

\* the same for a reply that is no JSON
C18_WitnessUnparseable ==
    /\ NarrateHandled
    /\ ReplyUnparseable
    /\ generate_content_calls = 1
    /\ narrate_response.status = 500

\* a request has been handled without any call
C18_WitnessNoModel ==
    /\ NarrateHandled
    /\ gemini_model = NoModel
    /\ generate_content_calls = 0

\* J between a leading fence, with or without the json tag, and a
\* trailing fence
InFences(J) ==
    { <<Backtick, Backtick, Backtick, "j", "s", "o", "n", "\n">> \o J \o <<"\n", Backtick, Backtick, Backtick>>, <<Backtick, Backtick, Backtick, "j", "s", "o", "n">> \o J \o <<Backtick, Backtick, Backtick, "\n">>, <<Backtick, Backtick, Backtick>> \o J \o <<Backtick, Backtick, Backtick>> }

\* the model replied text to the /narrate request that has been handled
Replied(text) == NarrateHandled /\ last_reply.ok /\ last_reply.text = text

\* C19: for every JSON text J, the reply that holds J between a leading
\* triple-backtick fence, with or without the tag json, and a trailing
\* triple-backtick fence is parsed to the same chapters and script as the
\* reply J itself; and the reply J itself is parsed as J.
C19_FencedParsesAsBare ==
    \A doc \in JsonDocuments :
        /\ Replied(doc[1]) => narrate_response = response_of_parse(Ret(doc[2]))
        /\ \A text \in InFences(doc[1]) :
              Replied(text) => narrate_response = response_of_reply(Ret(doc[1]))

\* a fenced reply with the tag has given the chapter and the script of its
\* JSON text
C19_Witness ==
    /\ \E doc \in JsonDocuments : Replied(<<Backtick, Backtick, Backtick, "j", "s", "o", "n", "\n">> \o doc[1] \o <<"\n", Backtick, Backtick, Backtick>>)
    /\ narrate_response.status = 200
    /\ Len(narrate_response.chapters) = 1
    /\ narrate_response.chapters[1].title = <<"A">>
    /\ narrate_response.script.some

\* the same without the tag, and without fences
C19_WitnessUntagged ==
    /\ \E doc \in JsonDocuments : Replied(<<Backtick, Backtick, Backtick>> \o doc[1] \o <<Backtick, Backtick, Backtick>>)
    /\ narrate_response.status = 200
    /\ Len(narrate_response.chapters) = 1
C19_WitnessBare ==
    /\ \E doc \in JsonDocuments : Replied(doc[1])
    /\ narrate_response.status = 200
    /\ Len(narrate_response.chapters) = 1

\* ---------------------------------------------------------------------
\* C21 (map_match.py 26-33, 108-117)

\* the text of the coordinates that the cache key is made of
KeyText(coordinates) == coordinates_str_prefix(coordinates)

\* the handled /map_match request was served from the cache
ServedFromCache == GeoHandled("/map_match") /\ from_cache_count = 1

\* C21: a map-match result served from the cache is returned only to a
\* request whose coordinate sequence is identical to that of the request
\* that populated the entry: two requests with different coordinate
\* sequences never share a cache entry.
C21_CacheServesOwnTrace ==
    ServedFromCache =>
        \E p \in populated_by :
            p.key = HandledKey /\ p.points = geo_request.points

\* what the key does ensure: the request served from the cache and the
\* request that populated the entry agree on the first hundred
\* characters of the text of their coordinates
C21_CacheServesSamePrefix ==
    ServedFromCache =>
        \E p \in populated_by :
            p.key = HandledKey /\ KeyText(p.points) = KeyText(geo_request.points)

\* a request is served from the cache an entry that its own trace wrote
C21_ServedOwnTrace ==
    /\ ServedFromCache
    /\ \E p \in populated_by : p.key = HandledKey /\ p.points = geo_request.points

\* ---------------------------------------------------------------------
\* C22 (enrich.py 27-67)

\* the point of the handled /enrich request and the location of its answer
RequestedPoint == geo_request.points[1]
AnsweredLocation == geo_response.enrich.location
EnrichAnswered == GeoHandled("/enrich") /\ geo_response.status = 200

\* C22: for every /enrich request, after any sequence of earlier
\* enrichment requests, location.lat and location.lon of the response
\* equal the lat and lon of that request, whether the response was
\* computed or served from the cache.
C22_LocationIsRequested ==
    EnrichAnswered =>
        /\ AnsweredLocation.lat = RequestedPoint.lat
        /\ AnsweredLocation.lon = RequestedPoint.lon

\* what does hold: a computed response carries the point of the request,
\* and a response out of the cache a point with the same four decimals
C22_LocationWithinKey ==
    EnrichAnswered =>
        /\ from_cache_count = 0 =>
              /\ AnsweredLocation.lat = RequestedPoint.lat
              /\ AnsweredLocation.lon = RequestedPoint.lon
        /\ Fmt4f(AnsweredLocation.lat) = Fmt4f(RequestedPoint.lat)
        /\ Fmt4f(AnsweredLocation.lon) = Fmt4f(RequestedPoint.lon)

\* a request is served from the cache the response to its own point
C22_ServedOwnPoint ==
    /\ EnrichAnswered
    /\ from_cache_count = 1
    /\ AnsweredLocation.lat = RequestedPoint.lat
    /\ AnsweredLocation.lon = RequestedPoint.lon

\* ---------------------------------------------------------------------
\* C25 (enrich.py 94-138, 27-67; cache.py 64-112)

BatchAnswered == GeoHandled("/enrich_batch") /\ geo_response.status = 200

\* results has one entry per requested point, in the order of the request
OneResultPerPoint ==
    /\ Len(geo_response.results) = Len(geo_request.points)
    /\ \A k \in 1..Len(geo_request.points) :
          /\ Fmt4f(geo_response.results[k].location.lat)
                = Fmt4f(geo_request.points[k].lat)
          /\ Fmt4f(geo_response.results[k].location.lon)
                = Fmt4f(geo_request.points[k].lon)

\* meta.cache_hits is the number of results that came out of the cache
HitsAreServed ==
    /\ geo_response.cache_hits = from_cache_count
    /\ 0 <= geo_response.cache_hits
    /\ geo_response.cache_hits <= geo_response.total_points

\* Redis was up and no other request or expiry touched the entries while
\* the batch was handled
Undisturbed == geo_request.ups = <<>> /\ geo_request.others = <<>>

\* C25: for every /enrich_batch response, results has one entry per
\* requested point in request order, meta.total_points is the number of
\* points, and meta.cache_hits is the number of those results that were
\* actually served from the cache (hence between 0 and total_points),
\* also when other requests populate or expire cache entries concurrently
\* and when the batch repeats a coordinate.
C25_BatchCounts ==
    BatchAnswered =>
        /\ OneResultPerPoint
        /\ geo_response.total_points = Len(geo_request.points)
        /\ HitsAreServed

\* what does hold: the results and total_points are as said whatever
\* happens, and cache_hits counts the results out of the cache when Redis
\* is up and nothing else touches the entries during the batch
C25_UndisturbedBatchCounts ==
    BatchAnswered =>
        /\ OneResultPerPoint
        /\ geo_response.total_points = Len(geo_request.points)
        /\ 0 <= geo_response.cache_hits
        /\ geo_response.cache_hits <= geo_response.total_points
        /\ Undisturbed => HitsAreServed

\* a batch that repeats a coordinate counts the second result as a hit
C25_RepeatedPointCounted ==
    /\ BatchAnswered
    /\ Undisturbed
    /\ Len(geo_request.points) = 2
    /\ enrich_cache_key(geo_request.points[1]) = enrich_cache_key(geo_request.points[2])
    /\ geo_response.cache_hits = 1
    /\ from_cache_count = 1

\* an entry expired between cache.exists and cache.get: a hit is counted
\* and no result came out of the cache
C25_ExpiredBetween ==
    /\ BatchAnswered
    /\ geo_request.ups = <<>>
    /\ geo_request.points # <<>>
    /\ geo_request.others = <<Quiet, Expiry(geo_request.points[1])>>
    /\ geo_response.cache_hits > from_cache_count

\* an entry was set by another request between cache.exists and
\* cache.get: the result came out of the cache and no hit is counted
C25_PopulatedBetween ==
    /\ BatchAnswered
    /\ geo_request.ups = <<>>
    /\ geo_request.points # <<>>
    /\ geo_request.others = <<Quiet, Populating(geo_request.points[1])>>
    /\ geo_response.cache_hits < from_cache_count

\* ---------------------------------------------------------------------
\* C23 (database.py 39-50)

\* the calls of the method op made on the session that ended in one of hows
Calls(ses, op, hows) ==
    { k \in 1..Len(ses.ops) : ses.ops[k].op = op /\ ses.ops[k].how \in hows }

\* the generator of the session has ended
Left(ses) == ses.pc = "left"

\* close was called exactly once, as the last call on the session
ClosedOnceAtLast(ses) ==
    /\ Cardinality(Calls(ses, "close", Outcomes)) = 1
    /\ ses.ops[Len(ses.ops)].op = "close"

\* the body or the commit ended in one of hows
BodyOrCommit(ses, hows) ==
    \/ ses.body \in hows
    \/ Calls(ses, "commit", hows) # {}

\* not both committed and rolled back with success
NotBothCommittedAndRolledBack(ses) ==
    Calls(ses, "commit", {Returns}) = {} \/ Calls(ses, "rollback", {Returns}) = {}

\* the exception that the body or the commit raised
Original(ses) ==
    IF ses.body = RaisesException THEN BodyError
    ELSE IF Calls(ses, "commit", {RaisesException}) # {} THEN CommitError
    ELSE CancelledError

\* C23: every session opened by get_db_session is closed exactly once on
\* every path, and close is the last operation on it: if the body
\* completes, commit is attempted; if the body or the commit raises,
\* rollback is performed and the exception is re-raised to the caller; a
\* session is never left open and never both successfully committed and
\* rolled back.
C23_SessionLifecycle ==
    \A s \in 1..MaxSessions :
        Left(db_sessions[s]) =>
            /\ ClosedOnceAtLast(db_sessions[s])
            /\ db_sessions[s].body = Returns =>
                  Calls(db_sessions[s], "commit", Outcomes) # {}
            /\ BodyOrCommit(db_sessions[s], {RaisesException, RaisesCancelled}) =>
                  /\ Calls(db_sessions[s], "rollback", Outcomes) # {}
                  /\ db_sessions[s].raised # NoException
            /\ NotBothCommittedAndRolledBack(db_sessions[s])

\* what does hold: the session is closed exactly once and last on every
\* path, commit is attempted when the body completes, commit and
\* rollback never both succeed, and what the body or the commit raised
\* reaches the caller when rollback and close return; rollback is
\* performed when an Exception was raised, and not when the body or the
\* commit was cancelled
C23_RollbackOnExceptionOnly ==
    \A s \in 1..MaxSessions :
        Left(db_sessions[s]) =>
            /\ ClosedOnceAtLast(db_sessions[s])
            /\ db_sessions[s].body = Returns =>
                  Calls(db_sessions[s], "commit", Outcomes) # {}
            /\ BodyOrCommit(db_sessions[s], {RaisesException}) =>
                  Calls(db_sessions[s], "rollback", Outcomes) # {}
            /\ BodyOrCommit(db_sessions[s], {RaisesCancelled}) =>
                  Calls(db_sessions[s], "rollback", Outcomes) = {}
            /\ BodyOrCommit(db_sessions[s], {RaisesException, RaisesCancelled}) =>
                  /\ db_sessions[s].raised # NoException
                  /\ (/\ Calls(db_sessions[s], "rollback", {RaisesException, RaisesCancelled}) = {}
                      /\ Calls(db_sessions[s], "close", {Returns}) # {})
                        => db_sessions[s].raised = Original(db_sessions[s])
            /\ NotBothCommittedAndRolledBack(db_sessions[s])

\* the body raised an Exception: rollback, then close, and the caller
\* gets the exception
C23_RolledBack ==
    \E s \in 1..MaxSessions :
        /\ Left(db_sessions[s])
        /\ db_sessions[s].ops = <<SessionOp("rollback", Returns), SessionOp("close", Returns)>>
        /\ db_sessions[s].raised = BodyError

\* the commit was cancelled: close only
C23_CommitCancelled ==
    \E s \in 1..MaxSessions :
        /\ Left(db_sessions[s])
        /\ db_sessions[s].ops = <<SessionOp("commit", RaisesCancelled), SessionOp("close", Returns)>>
        /\ db_sessions[s].raised = CancelledError

\* ---------------------------------------------------------------------
\* C24 (cache.py 17-50, main.py 19-40)

\* no caller was given, or sent a command on, a client on which close()
\* had been called
NoCallerOnClosingPool ==
    \A c \in 1..MaxClients :
        ~redis_clients[c].got_closing /\ ~redis_clients[c].used_closing

\* the pools that were made and on which close() has not returned
OpenPools == (1..redis_close.made) \ redis_close.closed

\* _redis_pool never holds a pool that close_redis() has closed, and is
\* None as long as no pool is made after it
NullAfterClose ==
    /\ redis_pool \notin redis_close.closed
    /\ OpenPools = {} => redis_pool = NoPool

AtMostOnePool == Cardinality(OpenPools) <= 1

\* C24: under any interleaving of request-time get_redis calls with
\* close_redis, no caller obtains or keeps using a Redis handle on which
\* close has already been started; after close_redis completes the
\* process-wide pool handle is null, and at most one pool exists at any
\* time (a later get_redis creates a fresh one).
C24_NoHandleOfClosingPool ==
    /\ NoCallerOnClosingPool
    /\ NullAfterClose
    /\ AtMostOnePool

\* what does hold: the handle is null once close_redis() is through, at
\* most one pool is open at any time, and a get_redis() after the close
\* makes a new pool
C24_OnePoolNullAfterClose ==
    /\ NullAfterClose
    /\ AtMostOnePool
    /\ redis_close.closed \subseteq redis_close.started

\* get_redis() gave a caller the pool that close_redis() was closing
C24_GotClosingPool ==
    \E c \in 1..MaxClients :
        /\ redis_clients[c].got_closing
        /\ redis_clients[c].client = redis_close.closing
        /\ redis_close.pc = "closing"

\* a caller had its client before close_redis() ran and its command was
\* answered after close() was called on the client
C24_UsedClosingPool ==
    \E c \in 1..MaxClients :
        /\ ~redis_clients[c].got_closing
        /\ redis_clients[c].used_closing

\* a get_redis() after close_redis() made a second pool
C24_FreshPool ==
    /\ redis_close.pc = "done"
    /\ redis_close.closed = {1}
    /\ redis_pool = 2

====
